---- MODULE Spec2Model ----
(***************************************************************************)
(* dhcpkit_vpp: the Ethernet / IPv6 / UDP codecs, the checksum engine and  *)
(* the VPP punt-socket listener and replier, modelled at the byte level.   *)
(*                                                                         *)
(* A byte string is a sequence of numbers in 0..255.  A protocol element   *)
(* is a record whose cls field names its Python class; the other fields    *)
(* are the parameters of its constructor, which is what the elements'      *)
(* equality compares.  Offsets are 0-based as in the code.                 *)
(***************************************************************************)
EXTENDS Integers, Sequences, FiniteSets, TLC

(***************************************************************************)
(* Python values and byte helpers                                          *)
(***************************************************************************)
\* `length: int = None`: the absent length argument of parse / load_from
None == -1

\* `recalculate_checksum_for: Layer3Packet = None`: the absent packet
NoPacket == [cls |-> "None"]

Min2(a, b) == IF a < b THEN a ELSE b

Max2(a, b) == IF a > b THEN a ELSE b

\* buffer[a:b] for 0 <= a: a slice is clamped to the buffer, never an error
Slice(buffer, a, b) == SubSeq(buffer, a + 1, Min2(b, Len(buffer)))

\* pack('!H', n) / pack('!B', n) / pack('!I', n) for n in range
PackH(n) == << n \div 256, n % 256 >>

PackI(n) == << n \div 16777216, (n \div 65536) % 256, (n \div 256) % 256, n % 256 >>

\* unpack_from('!H', buffer, offset)[0] and unpack_from('!I', buffer, offset)[0]
UnpackH(buffer, offset) == buffer[offset + 1] * 256 + buffer[offset + 2]

UnpackI(buffer, offset) ==
    ((buffer[offset + 1] * 256 + buffer[offset + 2]) * 256 + buffer[offset + 3]) * 256
        + buffer[offset + 4]

(***************************************************************************)
(* protocols/utils.py: the checksum engine                                 *)
(***************************************************************************)
\* the carry around add keeping the low 16 bits only
carry_around_add_dropping(checksum, current_word) ==
    (checksum + current_word) % 65536

\* the carry around add of one loop step: (c & 0xffff) + (c >> 16)
carry_around_add(checksum, current_word) ==
    LET c == checksum + current_word
    IN  (c % 65536) + (c \div 65536)

RECURSIVE checksum_loop(_, _)
\* the for loop of ones_complement_checksum, loop holding its variables i
\* and checksum; msg[i + 1] past the end is an IndexError
checksum_loop(msg, loop) ==
    IF loop.i >= Len(msg) THEN [ok |-> TRUE, checksum |-> loop.checksum]
    ELSE IF loop.i + 1 >= Len(msg) THEN [ok |-> FALSE, checksum |-> loop.checksum]
    ELSE LET current_word == msg[loop.i + 1] * 256 + msg[loop.i + 2]
         IN  checksum_loop(msg, [i |-> loop.i + 2,
                                 checksum |-> carry_around_add(loop.checksum,
                                                               current_word)])

\* ones_complement_checksum returning the sum without complementing it
ones_complement_checksum_plain(msg) ==
    LET r == checksum_loop(msg, [i |-> 0, checksum |-> 0])
    IN  IF r.ok THEN [ok |-> TRUE, value |-> r.checksum % 65536]
        ELSE [ok |-> FALSE, err |-> "IndexError"]

ones_complement_checksum(msg) ==
    LET r == checksum_loop(msg, [i |-> 0, checksum |-> 0])
    IN  IF r.ok THEN [ok |-> TRUE, value |-> 65535 - (r.checksum % 65536)]
        ELSE [ok |-> FALSE, err |-> "IndexError"]

(***************************************************************************)
(* protocols/layer4.py: UDP and the unknown layer 4 protocol               *)
(***************************************************************************)
\* Layer4Protocol.protocol_number, overridden by UDP
protocol_number(l4) == IF l4.cls = "UDP" THEN 17 ELSE 0

\* the length property of UDP and of UnknownLayer4Protocol
L4_length(l4) == IF l4.cls = "UDP" THEN Len(l4.payload) + 8 ELSE Len(l4.data)

\* get_pseudo_header packing the protocol number before the padding
get_pseudo_header_misplaced(l3, l4_payload) ==
    IF l3.cls = "IPv6"
    THEN l3.source \o l3.destination \o PackI(L4_length(l4_payload))
            \o << protocol_number(l4_payload) >> \o << 0, 0, 0 >>
    ELSE << >>

\* IPv6.get_pseudo_header / UnknownLayer3Packet.get_pseudo_header
get_pseudo_header(l3, l4_payload) ==
    IF l3.cls = "IPv6"
    THEN l3.source \o l3.destination \o PackI(L4_length(l4_payload))
            \o << 0, 0, 0 >> \o << protocol_number(l4_payload) >>
    ELSE << >>

\* the bytes UDP.save packs once the checksum to write is known
UDP_pack(self, checksum) ==
    PackH(self.source_port) \o PackH(self.destination_port)
        \o PackH(L4_length(self)) \o PackH(checksum) \o self.payload

\* calculate_checksum over the datagram alone, without the pseudo header
calculate_checksum_datagram_only(self, l3_packet) ==
    LET msg0 == UDP_pack(self, 0)
        msg  == IF Len(msg0) % 2 = 1 THEN Append(msg0, 0) ELSE msg0
    IN  ones_complement_checksum(msg).value

\* UDP.calculate_checksum
calculate_checksum(self, l3_packet) ==
    LET msg0 == get_pseudo_header(l3_packet, self) \o UDP_pack(self, 0)
        msg  == IF Len(msg0) % 2 = 1 THEN Append(msg0, 0) ELSE msg0
    IN  ones_complement_checksum(msg).value

\* UDP.save recalculating before it looks at zero_checksum
UDP_save_recalculating_first(self, zero_checksum, recalculate_checksum_for) ==
    LET stored == IF recalculate_checksum_for # NoPacket
                  THEN [self EXCEPT !.checksum =
                           calculate_checksum(self, recalculate_checksum_for)]
                  ELSE self
    IN  IF zero_checksum
        THEN [bytes |-> UDP_pack(stored, 0), self |-> stored]
        ELSE [bytes |-> UDP_pack(stored, stored.checksum), self |-> stored]

\* UDP.save: the buffer and the datagram as the call leaves it
UDP_save(self, zero_checksum, recalculate_checksum_for) ==
    IF zero_checksum
    THEN [bytes |-> UDP_pack(self, 0), self |-> self]
    ELSE LET stored == IF recalculate_checksum_for # NoPacket
                       THEN [self EXCEPT !.checksum =
                                calculate_checksum(self, recalculate_checksum_for)]
                       ELSE self
         IN  [bytes |-> UDP_pack(stored, stored.checksum), self |-> stored]

\* save of a layer 4 element: UDP.save or UnknownLayer4Protocol.save
L4_save(self, zero_checksum, recalculate_checksum_for) ==
    IF self.cls = "UDP"
    THEN UDP_save(self, zero_checksum, recalculate_checksum_for)
    ELSE [bytes |-> self.data, self |-> self]

\* the region parse is allowed to read: `length` bytes, or the rest of the
\* buffer when no length is passed
Region(buffer, offset, length) ==
    IF length = None THEN Len(buffer) - offset ELSE length

\* max_length = length or (len(buffer) - offset)
MaxLength(buffer, offset, length) ==
    IF length = None \/ length = 0 THEN Len(buffer) - offset ELSE length

Fail(layer, err, readEnd) ==
    [ok |-> FALSE, layer |-> layer, err |-> err, readEnd |-> readEnd]

\* the overrun test refusing a payload that exactly fills the buffer
payload_overruns_inclusive(payload_len, max_payload_len) == payload_len >= max_payload_len

\* `if payload_len > max_payload_len`: the overrun test of IPv6.load_from and
\* UDP.load_from
payload_overruns(payload_len, max_payload_len) == payload_len > max_payload_len

\* parse of UnknownLayer3Packet / UnknownLayer4Protocol: load_from is the
\* one they inherit from dhcpkit's UnknownProtocolElement
Unknown_load_from(cls, buffer, offset, length) ==
    LET max_length == MaxLength(buffer, offset, length)
    IN  [ok |-> TRUE, consumed |-> max_length,
         value |-> [cls |-> cls, data |-> Slice(buffer, offset, offset + max_length)],
         readEnd |-> offset + max_length]

\* UDP.load_from unpacking the two ports in the wrong order
UDP_load_from_swapped(buffer, offset, length) ==
    LET max_length == MaxLength(buffer, offset, length)
    IN  IF max_length < 8 THEN Fail("UDP", "TooShort", offset)
        ELSE LET declared == UnpackH(buffer, offset + 4)
                 payload_len == declared - 8
                 max_payload_len == max_length - 8
             IN  IF declared < 8 THEN Fail("UDP", "TooShort", offset + 8)
                 ELSE IF payload_overruns(payload_len, max_payload_len)
                      THEN Fail("UDP", "Overrun", offset + 8)
                 ELSE [ok |-> TRUE, consumed |-> 8 + payload_len,
                       value |-> [cls |-> "UDP",
                                  source_port |-> UnpackH(buffer, offset + 2),
                                  destination_port |-> UnpackH(buffer, offset),
                                  checksum |-> UnpackH(buffer, offset + 6),
                                  payload |-> Slice(buffer, offset + 8,
                                                    offset + 8 + payload_len)],
                       readEnd |-> offset + 8 + payload_len]

\* UDP.parse: UDP.load_from on a fresh UDP()
UDP_load_from(buffer, offset, length) ==
    LET max_length == MaxLength(buffer, offset, length)
    IN  IF max_length < 8 THEN Fail("UDP", "TooShort", offset)
        ELSE LET declared == UnpackH(buffer, offset + 4)
                 payload_len == declared - 8
                 max_payload_len == max_length - 8
             IN  IF declared < 8 THEN Fail("UDP", "TooShort", offset + 8)
                 ELSE IF payload_overruns(payload_len, max_payload_len)
                      THEN Fail("UDP", "Overrun", offset + 8)
                 ELSE [ok |-> TRUE, consumed |-> 8 + payload_len,
                       value |-> [cls |-> "UDP",
                                  source_port |-> UnpackH(buffer, offset),
                                  destination_port |-> UnpackH(buffer, offset + 2),
                                  checksum |-> UnpackH(buffer, offset + 6),
                                  payload |-> Slice(buffer, offset + 8,
                                                    offset + 8 + payload_len)],
                       readEnd |-> offset + 8 + payload_len]

\* protocol_layer4_registry.get(next_header, UnknownLayer4Protocol), the
\* registry holding the entry point 17 = UDP
layer4_class(next_header) ==
    IF next_header = 17 THEN "UDP" ELSE "UnknownLayer4Protocol"

\* the parse of a layer 4 payload refusing a datagram without a checksum
L4_parse_refusing_no_checksum(cls, buffer, offset, length) ==
    IF cls = "UDP"
    THEN LET r == UDP_load_from(buffer, offset, length)
         IN  IF r.ok /\ r.value.checksum = 0 THEN Fail("UDP", "NoChecksum", r.readEnd)
             ELSE r
    ELSE Unknown_load_from(cls, buffer, offset, length)

L4_parse(cls, buffer, offset, length) ==
    IF cls = "UDP" THEN UDP_load_from(buffer, offset, length)
    ELSE Unknown_load_from(cls, buffer, offset, length)

(***************************************************************************)
(* protocols/layer3.py: IPv6 and the unknown layer 3 packet                *)
(***************************************************************************)
\* isinstance(payload, Layer4Protocol)
IsLayer4Protocol(payload) == payload.cls \in {"UDP", "UnknownLayer4Protocol"}

\* IPv6Address.is_multicast: the address is in ff00::/8
is_multicast(address) == address[1] = 255

\* IPv6.parse: IPv6.load_from on a fresh IPv6()
IPv6_load_from(buffer, offset, length) ==
    LET max_length == MaxLength(buffer, offset, length)
    IN  IF max_length < 40 THEN Fail("IPv6", "TooShort", offset)
        ELSE IF buffer[offset + 1] \div 16 # 6 THEN Fail("IPv6", "WrongVersion", offset + 1)
        ELSE LET payload_len == UnpackH(buffer, offset + 4)
                 next_header == buffer[offset + 7]
                 max_payload_len == max_length - 40
                 inner == L4_parse(layer4_class(next_header), buffer, offset + 40, payload_len)
             IN  IF payload_overruns(payload_len, max_payload_len)
                 THEN Fail("IPv6", "Overrun", offset + 40)
                 ELSE IF ~inner.ok THEN [inner EXCEPT !.readEnd = Max2(@, offset + 40)]
                 ELSE [ok |-> TRUE, consumed |-> 40 + inner.consumed,
                       value |-> [cls |-> "IPv6",
                                  traffic_class |-> (UnpackH(buffer, offset) \div 16) % 256,
                                  flow_label |-> UnpackI(buffer, offset) % 1048576,
                                  next_header |-> next_header,
                                  hop_limit |-> buffer[offset + 8],
                                  source |-> Slice(buffer, offset + 8, offset + 24),
                                  destination |-> Slice(buffer, offset + 24, offset + 40),
                                  payload |-> inner.value],
                       readEnd |-> Max2(inner.readEnd, offset + 40)]

\* IPv6.save calling the payload's save() without a packet to recalculate for
IPv6_save_as_stored(self) ==
    LET saved == IF IsLayer4Protocol(self.payload)
                 THEN L4_save(self.payload, FALSE, NoPacket)
                 ELSE [bytes |-> self.payload.data, self |-> self.payload]
    IN  [bytes |-> << 6 * 16 + self.traffic_class \div 16,
                      (self.traffic_class % 16) * 16 + self.flow_label \div 65536,
                      (self.flow_label \div 256) % 256,
                      self.flow_label % 256 >>
                   \o PackH(Len(saved.bytes)) \o << self.next_header, self.hop_limit >>
                   \o self.source \o self.destination \o saved.bytes,
         self |-> [self EXCEPT !.payload = saved.self]]

\* IPv6.save: the buffer and the packet as the call leaves it (the payload's
\* checksum is stored by UDP.save)
IPv6_save(self) ==
    LET saved == IF IsLayer4Protocol(self.payload)
                 THEN L4_save(self.payload, FALSE, self)
                 ELSE [bytes |-> self.payload.data, self |-> self.payload]
    IN  [bytes |-> << 6 * 16 + self.traffic_class \div 16,
                      (self.traffic_class % 16) * 16 + self.flow_label \div 65536,
                      (self.flow_label \div 256) % 256,
                      self.flow_label % 256 >>
                   \o PackH(Len(saved.bytes)) \o << self.next_header, self.hop_limit >>
                   \o self.source \o self.destination \o saved.bytes,
         self |-> [self EXCEPT !.payload = saved.self]]

\* protocol_layer3_registry.get(ethertype, UnknownLayer3Packet), the registry
\* holding the entry point 34525 = IPv6
layer3_class(ethertype) ==
    IF ethertype = 34525 THEN "IPv6" ELSE "UnknownLayer3Packet"

L3_parse(cls, buffer, offset, length) ==
    IF cls = "IPv6" THEN IPv6_load_from(buffer, offset, length)
    ELSE Unknown_load_from(cls, buffer, offset, length)

\* save() of an Ethernet payload: IPv6.save or the unknown element's data
L3_save(self) ==
    IF self.cls = "IPv6" THEN IPv6_save(self)
    ELSE [bytes |-> self.data, self |-> self]

(***************************************************************************)
(* protocols/layer2.py: Ethernet                                           *)
(***************************************************************************)
\* Ethernet.parse: Ethernet.load_from on a fresh Ethernet()
Ethernet_load_from(buffer, offset, length) ==
    LET max_length == MaxLength(buffer, offset, length)
    IN  IF max_length < 14 THEN Fail("Ethernet", "TooShort", offset)
        ELSE LET ethertype == UnpackH(buffer, offset + 12)
                 max_payload_len == max_length - 14
                 inner == L3_parse(layer3_class(ethertype), buffer, offset + 14, max_payload_len)
             IN  IF ~inner.ok THEN [inner EXCEPT !.readEnd = Max2(@, offset + 14)]
                 ELSE [ok |-> TRUE, consumed |-> 14 + inner.consumed,
                       value |-> [cls |-> "Ethernet",
                                  destination |-> Slice(buffer, offset, offset + 6),
                                  source |-> Slice(buffer, offset + 6, offset + 12),
                                  ethertype |-> ethertype,
                                  payload |-> inner.value],
                       readEnd |-> Max2(inner.readEnd, offset + 14)]

\* Ethernet.save writing the source before the destination
Ethernet_save_source_first(self) ==
    LET saved == L3_save(self.payload)
    IN  [bytes |-> self.source \o self.destination \o PackH(self.ethertype) \o saved.bytes,
         self |-> [self EXCEPT !.payload = saved.self]]

\* Ethernet.save
Ethernet_save(self) ==
    LET saved == L3_save(self.payload)
    IN  [bytes |-> self.destination \o self.source \o PackH(self.ethertype) \o saved.bytes,
         self |-> [self EXCEPT !.payload = saved.self]]

\* cls.parse(buffer, offset, length) for the three codecs and the unknowns
parse(cls, buffer, offset, length) ==
    IF cls = "Ethernet" THEN Ethernet_load_from(buffer, offset, length)
    ELSE IF cls = "IPv6" THEN IPv6_load_from(buffer, offset, length)
    ELSE L4_parse(cls, buffer, offset, length)

\* element.save() as called from outside, without arguments
save(self) ==
    IF self.cls = "Ethernet" THEN Ethernet_save(self)
    ELSE IF self.cls = "IPv6" THEN IPv6_save(self)
    ELSE L4_save(self, FALSE, NoPacket)

\* the fixed header size of each codec
HeaderSize(cls) ==
    IF cls = "Ethernet" THEN 14 ELSE IF cls = "IPv6" THEN 40 ELSE 8

(***************************************************************************)
(* Inputs of the codec experiments                                         *)
(***************************************************************************)
\* longest payload / data byte string that is enumerated
MaxData == 2

\* longest raw byte string handed to the checksum engine
MaxMsg == 5

\* largest offset a buffer is parsed at
MaxOffset == 1

DataBytes == {1, 255}

Strings(n) == UNION {[1..k -> DataBytes] : k \in 0..n}

DataStrings == Strings(MaxData)

\* b'Demo UDP packet!' and b'Demo UDP packet' of the tests
DemoPayload16 == << 68, 101, 109, 111, 32, 85, 68, 80, 32, 112, 97, 99, 107, 101, 116, 33 >>

DemoPayload15 == SubSeq(DemoPayload16, 1, 15)

\* 2001:9e0::3:2002, 2001:9e0:4:32:212:45:32:222 and ff02::1:2, packed
AddrClient == << 32, 1, 9, 224, 0, 0, 0, 0, 0, 0, 0, 0, 0, 3, 32, 2 >>

AddrServer == << 32, 1, 9, 224, 0, 4, 0, 50, 2, 18, 0, 69, 0, 50, 2, 34 >>

AddrAllServers == << 255, 2, 0, 0, 0, 0, 0, 0, 0, 0, 0, 0, 0, 1, 0, 2 >>

MacA == << 1, 35, 69, 103, 137, 171 >>

MacB == << 205, 239, 1, 35, 69, 103 >>

\* (traffic class, flow label) pairs: all zero, and the tests' 239 / 773615
ClassAndLabel == { << 0, 0 >>, << 239, 773615 >> }

UDPValues ==
    {[cls |-> "UDP", source_port |-> 4660, destination_port |-> dp, checksum |-> ck,
      payload |-> pl] : dp \in {547, 22136}, ck \in {0, 42645}, pl \in DataStrings}
    \cup {[cls |-> "UDP", source_port |-> 4660, destination_port |-> 22136,
           checksum |-> 7, payload |-> pl] : pl \in {DemoPayload16, DemoPayload15}}

UnknownValues(cls) == {[cls |-> cls, data |-> d] : d \in DataStrings}

IPv6Values ==
    {[cls |-> "IPv6", traffic_class |-> cl[1], flow_label |-> cl[2], next_header |-> nh,
      hop_limit |-> 253, source |-> AddrClient, destination |-> dst, payload |-> pl] :
        cl \in ClassAndLabel, nh \in {0, 17}, dst \in {AddrServer, AddrAllServers},
        pl \in UDPValues \cup UnknownValues("UnknownLayer4Protocol")}

EthernetValues ==
    {[cls |-> "Ethernet", destination |-> MacA, source |-> MacB, ethertype |-> et,
      payload |-> pl] :
        et \in {0, 34525},
        pl \in IPv6Values \cup UnknownValues("UnknownLayer3Packet")
                 \cup UnknownValues("UnknownProtocolElement")}

ConstructedValues == UDPValues \cup IPv6Values \cup EthernetValues

\* raw wire images, built field by field
RawUDP(dport, declared, cksum, body) ==
    PackH(4660) \o PackH(dport) \o PackH(declared) \o PackH(cksum) \o body

RawIPv6(version, cl, declared, next_header, src, dst, body) ==
    << version * 16 + cl[1] \div 16, (cl[1] % 16) * 16 + cl[2] \div 65536,
       (cl[2] \div 256) % 256, cl[2] % 256 >>
    \o PackH(declared) \o << next_header, 253 >> \o src \o dst \o body

RawEthernet(ethertype, body) == MacA \o MacB \o PackH(ethertype) \o body

UDPWires ==
    {RawUDP(547, dl, ck, body) : dl \in {7} \cup (8..(MaxData + 9)), ck \in {0, 42645},
                                 body \in DataStrings}
    \cup {SubSeq(RawUDP(547, 8, 0, << >>), 1, k) : k \in {0, 7}}

\* the packet of the tests: its datagram of 24 bytes holds the checksum a
\* sender calculates, a695
FixturePacket ==
    RawIPv6(6, << 239, 773615 >>, 24, 17, AddrClient, AddrServer,
            RawUDP(22136, 24, 42645, DemoPayload16))

IPv6Wires ==
    {RawIPv6(6, cl, dl, nh, AddrClient, AddrServer, body) :
        cl \in ClassAndLabel, dl \in {0, 1} \cup (8..(MaxData + 9)), nh \in {0, 17},
        body \in UDPWires}
    \cup {RawIPv6(5, << 0, 0 >>, 0, 0, AddrClient, AddrServer, << >>),
          SubSeq(RawIPv6(6, << 0, 0 >>, 0, 0, AddrClient, AddrServer, << >>), 1, 39)}
    \cup {FixturePacket}

EthernetWires ==
    {RawEthernet(et, body) : et \in {0, 34525},
        body \in {w \in IPv6Wires : w[2] = 0} \cup DataStrings}
    \cup {SubSeq(RawEthernet(0, << >>), 1, 13)}
    \cup {RawEthernet(34525, FixturePacket)}

Wires(cls) ==
    IF cls = "Ethernet" THEN EthernetWires
    ELSE IF cls = "IPv6" THEN IPv6Wires ELSE UDPWires

\* the lengths parse is called with on a region of `room` bytes: none, zero
\* (what an enclosing layer passes for an empty payload), around the header
\* size, and the whole region
Lengths(cls, room) ==
    {None} \cup {n \in {0, HeaderSize(cls) - 1, HeaderSize(cls), room - 1, room} :
                    0 <= n /\ n <= room}

(***************************************************************************)
(* The codec experiments: one value is serialized and parsed back, one     *)
(* buffer is parsed and serialized back, one byte string is summed         *)
(***************************************************************************)
\* the codec experiment
VARIABLES kind, cls, val, buf, off, length, op, res

\* the listener: its configuration, the position of the recv_request call
\* under way and its locals, what it returned, the process-wide message
\* counter, and the last write of send_reply on the returned replier
VARIABLES interfaces, marks, pc, data, interface, frame, steps, signal, bundle,
          replier, message_counter, written, send_result

\* what has happened on the replier last returned: the send_reply calls made
\* on it, the calls of the socket's send, and the message of the last call
VARIABLES send_calls, writes, sent_message

\* the message ids of the bundles returned so far, in the order returned
VARIABLE returned_ids

\* a second listener of the same process, on a socket of its own: which of
\* the two the variables above stand for, and the attributes and the call
\* state of the other one
VARIABLES live, parked

cvars == << kind, cls, val, buf, off, length, op, res >>

svars == << send_calls, writes, sent_message >>

pvars == << live, parked >>

avars == << interfaces, marks, pc, data, interface, frame, steps, signal, bundle,
            replier, message_counter, written, send_result, svars, returned_ids,
            pvars >>

vars == << cvars, avars >>

NoResult == [ok |-> FALSE]

\* no element, no interface, no bundle, no replier, no write
NoInterface == [index |-> -1]

NoBundle == [message_id |-> << >>]

NoReplier == [interface_index |-> -1]

NoWrite == [data |-> << >>]

NoMessage == [peer_address |-> << >>]

NoListener == [pc |-> "none"]

\* the process-wide message counter when the listener starts: no message
\* yet, or 0xFFFFFE messages counted by the listeners of the server
CounterStarts == {0, 16777214}

\* the listener before its first recv_request, over the interfaces ifs
ListenerStarts(ifs) ==
    /\ interfaces = ifs
    /\ marks = << "vpp" >>
    /\ pc = "idle"
    /\ data = << >>
    /\ interface = NoInterface
    /\ frame = NoPacket
    /\ steps = << >>
    /\ signal = "none"
    /\ bundle = NoBundle
    /\ replier = NoReplier
    /\ written = NoWrite
    /\ send_result = "none"
    /\ send_calls = 0
    /\ writes = 0
    /\ sent_message = NoMessage
    /\ returned_ids = << >>
    /\ live = 1

(***************************************************************************)
(* validate: the attributes of an element are Python objects of any type,  *)
(* each given as a record with the name of its type                        *)
(***************************************************************************)
PyInt(n) == [type |-> "int", v |-> n]

\* True and False: bool is a subclass of int, True counting as 1
PyBool(b) == [type |-> "bool", v |-> IF b THEN 1 ELSE 0]

\* 0.1
PyFloat == [type |-> "float"]

PyNone == [type |-> "NoneType"]

PyBytes(s) == [type |-> "bytes", octets |-> s]

\* a str of the characters given by their code points
PyStr(s) == [type |-> "str", chars |-> s]

PyIPv6Address(packed) == [type |-> "IPv6Address", packed |-> packed]

\* raise ValueError(message)
FieldError(message) == [ok |-> FALSE, err |-> "ValueError", message |-> message]

Valid == [ok |-> TRUE]

\* isinstance(x, int)
isinstance_int(x) == x.type \in {"int", "bool"}

\* the width test taking 2 ** w itself
unsigned_inclusive(x, w) == isinstance_int(x) /\ 0 <= x.v /\ x.v <= 2 ^ w

\* not (not isinstance(x, int) or not (0 <= x < 2 ** w))
unsigned(x, w) == isinstance_int(x) /\ 0 <= x.v /\ x.v < 2 ^ w

\* isinstance(x, ProtocolElement) and the classes under the three bases
IsLayer4(x) == x.type \in {"UDP", "UnknownLayer4Protocol"}

IsLayer3(x) == x.type \in {"IPv6", "UnknownLayer3Packet"}

IsProtocolElement(x) ==
    IsLayer4(x) \/ IsLayer3(x) \/ x.type \in {"Ethernet", "UnknownProtocolElement"}

\* validate of the unknown variants, inherited from UnknownProtocolElement
Unknown_validate(self) ==
    IF self.data.type # "bytes" THEN FieldError("Data must be bytes") ELSE Valid

UDP_validate(self) ==
    IF ~unsigned(self.source_port, 16)
    THEN FieldError("Source port must be an unsigned 16 bit integer")
    ELSE IF ~unsigned(self.destination_port, 16)
    THEN FieldError("Destination port must be an unsigned 16 bit integer")
    ELSE IF ~unsigned(self.checksum, 16)
    THEN FieldError("Checksum must be an unsigned 16 bit integer")
    ELSE IF self.payload.type # "bytes"
    THEN FieldError("Payload must be a sequence of bytes")
    ELSE Valid

\* self.payload.validate() for a layer 4 payload
L4_validate(self) ==
    IF self.type = "UDP" THEN UDP_validate(self) ELSE Unknown_validate(self)

\* the packet's validate without the multicast test of the source
IPv6_validate_any_source(self) ==
    IF ~unsigned(self.traffic_class, 8)
    THEN FieldError("Traffic class must be an unsigned 8 bit integer")
    ELSE IF ~unsigned(self.flow_label, 20)
    THEN FieldError("Flow label must be an unsigned 20 bit integer")
    ELSE IF ~unsigned(self.next_header, 8)
    THEN FieldError("Next header type must be an unsigned 8 bit integer")
    ELSE IF ~unsigned(self.hop_limit, 8)
    THEN FieldError("Hop limit must be an unsigned 8 bit integer")
    ELSE IF self.source.type # "IPv6Address"
    THEN FieldError("Source must be an IPv6 address")
    ELSE IF self.destination.type # "IPv6Address"
    THEN FieldError("Destination must be an IPv6 address")
    ELSE IF ~IsProtocolElement(self.payload)
    THEN FieldError("Payload must be a protocol element")
    ELSE IF ~IsLayer4(self.payload)
    THEN FieldError("IPv6 cannot contain this element")
    ELSE L4_validate(self.payload)

IPv6_validate(self) ==
    IF ~unsigned(self.traffic_class, 8)
    THEN FieldError("Traffic class must be an unsigned 8 bit integer")
    ELSE IF ~unsigned(self.flow_label, 20)
    THEN FieldError("Flow label must be an unsigned 20 bit integer")
    ELSE IF ~unsigned(self.next_header, 8)
    THEN FieldError("Next header type must be an unsigned 8 bit integer")
    ELSE IF ~unsigned(self.hop_limit, 8)
    THEN FieldError("Hop limit must be an unsigned 8 bit integer")
    ELSE IF self.source.type # "IPv6Address"
    THEN FieldError("Source must be an IPv6 address")
    ELSE IF is_multicast(self.source.packed)
    THEN FieldError("Source must be a non-multicast IPv6 address")
    ELSE IF self.destination.type # "IPv6Address"
    THEN FieldError("Destination must be an IPv6 address")
    ELSE IF ~IsProtocolElement(self.payload)
    THEN FieldError("Payload must be a protocol element")
    ELSE IF ~IsLayer4(self.payload)
    THEN FieldError("IPv6 cannot contain this element")
    ELSE L4_validate(self.payload)

\* self.payload.validate() for the payload of a frame
L3_validate(self) ==
    IF self.type = "IPv6" THEN IPv6_validate(self) ELSE Unknown_validate(self)

\* the frame's validate without the test of the destination
Ethernet_validate_source_only(self) ==
    IF self.source.type # "bytes" \/ Len(self.source.octets) # 6
    THEN FieldError("Source must be a sequence of 6 bytes")
    ELSE IF ~unsigned(self.ethertype, 16)
    THEN FieldError("Ethertype must be an unsigned 16 bit integer")
    ELSE IF ~IsProtocolElement(self.payload)
    THEN FieldError("Payload must be a protocol element")
    ELSE IF ~(IsLayer3(self.payload) \/ self.payload.type = "UnknownProtocolElement")
    THEN FieldError("Ethernet cannot contain this element")
    ELSE L3_validate(self.payload)

Ethernet_validate(self) ==
    IF self.source.type # "bytes" \/ Len(self.source.octets) # 6
    THEN FieldError("Source must be a sequence of 6 bytes")
    ELSE IF self.destination.type # "bytes" \/ Len(self.destination.octets) # 6
    THEN FieldError("Destination must be a sequence of 6 bytes")
    ELSE IF ~unsigned(self.ethertype, 16)
    THEN FieldError("Ethertype must be an unsigned 16 bit integer")
    ELSE IF ~IsProtocolElement(self.payload)
    THEN FieldError("Payload must be a protocol element")
    ELSE IF ~(IsLayer3(self.payload) \/ self.payload.type = "UnknownProtocolElement")
    THEN FieldError("Ethernet cannot contain this element")
    ELSE L3_validate(self.payload)

\* element.validate()
validate(self) ==
    IF self.type = "Ethernet" THEN Ethernet_validate(self)
    ELSE IF self.type = "IPv6" THEN IPv6_validate(self)
    ELSE IF self.type = "UDP" THEN UDP_validate(self)
    ELSE Unknown_validate(self)

\* what the tests set an integer attribute of w bits to: 0.1, 0, -1,
\* 2 ** w - 1 and 2 ** w; and True
UnsignedTestValues(w) ==
    {PyFloat, PyInt(0), PyInt(-1), PyInt(2 ^ w - 1), PyInt(2 ^ w), PyBool(TRUE)}

UDPObjects ==
    {[type |-> "UDP", source_port |-> sp, destination_port |-> dp, checksum |-> ck,
      payload |-> PyBytes(DemoPayload15)] :
        sp \in UnsignedTestValues(16), dp \in UnsignedTestValues(16),
        ck \in UnsignedTestValues(16)}

\* a datagram that validates and one whose checksum does not
GoodUDPObject ==
    [type |-> "UDP", source_port |-> PyInt(546), destination_port |-> PyInt(547),
     checksum |-> PyInt(0), payload |-> PyBytes(DemoPayload15)]

BadUDPObject == [GoodUDPObject EXCEPT !.checksum = PyInt(-1)]

IPv6Objects ==
    {[type |-> "IPv6", traffic_class |-> tc, flow_label |-> fl, next_header |-> nh,
      hop_limit |-> hl, source |-> PyIPv6Address(AddrClient),
      destination |-> PyIPv6Address(AddrServer), payload |-> GoodUDPObject] :
        tc \in UnsignedTestValues(8), fl \in UnsignedTestValues(20),
        nh \in UnsignedTestValues(8), hl \in UnsignedTestValues(8)}
    \cup {[type |-> "IPv6", traffic_class |-> PyInt(0), flow_label |-> PyInt(0),
           next_header |-> PyInt(17), hop_limit |-> hl,
           source |-> PyIPv6Address(AddrClient),
           destination |-> PyIPv6Address(AddrServer), payload |-> BadUDPObject] :
            hl \in UnsignedTestValues(8)}

GoodIPv6Object ==
    [type |-> "IPv6", traffic_class |-> PyInt(0), flow_label |-> PyInt(0),
     next_header |-> PyInt(17), hop_limit |-> PyInt(64),
     source |-> PyIPv6Address(AddrClient), destination |-> PyIPv6Address(AddrServer),
     payload |-> GoodUDPObject]

\* what is put in the place of a MAC address: 6 bytes, 5 bytes, 7 bytes, the
\* strings '123456' and '12345', and None
MacTestValues ==
    {PyBytes(MacB), PyBytes(<< 49, 50, 51, 52, 53 >>),
     PyBytes(<< 49, 50, 51, 52, 53, 54, 55 >>), PyStr(<< 49, 50, 51, 52, 53, 54 >>),
     PyStr(<< 49, 50, 51, 52, 53 >>), PyNone}

\* what is put in the place of an address: a unicast and a multicast
\* IPv6Address, the 16 bytes of an address, an IPv4Address and None
AddressTestValues ==
    {PyIPv6Address(AddrClient), PyIPv6Address(AddrAllServers), PyBytes(AddrServer),
     [type |-> "IPv4Address", packed |-> << 192, 0, 2, 1 >>], PyNone}

GoodUnknownLayer3Object == [type |-> "UnknownLayer3Packet", data |-> PyBytes(DemoPayload15)]

\* what is put in the place of the payload of a frame: packets that
\* validate, packets that do not, a datagram, and b'Bad bad bad'
FramePayloadTestValues ==
    {GoodIPv6Object, [GoodIPv6Object EXCEPT !.payload = BadUDPObject],
     [GoodIPv6Object EXCEPT !.source = PyIPv6Address(AddrAllServers)],
     GoodUnknownLayer3Object, [GoodUnknownLayer3Object EXCEPT !.data = PyNone],
     [type |-> "UnknownProtocolElement", data |-> PyBytes(DemoPayload15)],
     GoodUDPObject, PyBytes(DemoPayload15)}

\* what is put in the place of the payload of a packet
PacketPayloadTestValues ==
    {GoodUDPObject, BadUDPObject,
     [type |-> "UnknownLayer4Protocol", data |-> PyBytes(DemoPayload15)],
     GoodUnknownLayer3Object, PyBytes(DemoPayload15)}

IPv6AddressObjects ==
    {[GoodIPv6Object EXCEPT !.source = src, !.destination = dst, !.payload = p,
                            !.hop_limit = hl] :
        src \in AddressTestValues, dst \in AddressTestValues,
        p \in PacketPayloadTestValues, hl \in {PyInt(64), PyInt(256)}}

EthernetObjects ==
    {[type |-> "Ethernet", destination |-> dst, source |-> src,
      ethertype |-> et, payload |-> p] :
        dst \in MacTestValues, src \in MacTestValues,
        et \in UnsignedTestValues(16), p \in FramePayloadTestValues}

ValidateObjects == UDPObjects \cup IPv6Objects \cup IPv6AddressObjects \cup EthernetObjects

(***************************************************************************)
(* save called with its arguments, on datagrams whatever checksum they     *)
(* hold                                                                    *)
(***************************************************************************)
\* the checksum attribute before the call: the tests' -1, 0, a checksum of
\* the fixtures, the largest
StoredChecksums == {-1, 0, 42645, 65535}

\* two bytes of payload with which the checksum of the tests' packet is 0
ZeroChecksumPayload == << 30, 134 >>

SaveDatagrams ==
    {[cls |-> "UDP", source_port |-> 4660, destination_port |-> 22136, checksum |-> ck,
      payload |-> pl] :
        ck \in StoredChecksums,
        pl \in DataStrings \cup {DemoPayload15, DemoPayload16, ZeroChecksumPayload}}

\* IPv6(source=..., destination=...): the packet of the tests that holds no
\* payload, to two destinations
DummyPackets ==
    {[cls |-> "IPv6", traffic_class |-> 0, flow_label |-> 0, next_header |-> 0,
      hop_limit |-> 0, source |-> AddrClient, destination |-> dst, payload |-> NoPacket] :
        dst \in {AddrServer, AddrAllServers}}

\* packets holding these datagrams, or transport data of an unknown protocol
SavePackets ==
    {[cls |-> "IPv6", traffic_class |-> 239, flow_label |-> 773615, next_header |-> 17,
      hop_limit |-> 253, source |-> AddrClient, destination |-> AddrServer,
      payload |-> pl] :
        pl \in SaveDatagrams \cup UnknownValues("UnknownLayer4Protocol")}

\* pack('!HHHH', ...) takes integers of 0..65535 only: anything else is a
\* struct.error
Packable(n) == n \in 0..65535

\* message.save(zero_checksum, recalculate_checksum_for) with the error pack
\* raises for the checksum it is given
UDP_save_call(self, zero_checksum, recalculate_checksum_for) ==
    IF ~zero_checksum /\ recalculate_checksum_for = NoPacket /\ ~Packable(self.checksum)
    THEN [ok |-> FALSE, err |-> "struct.error", bytes |-> << >>, self |-> self]
    ELSE LET saved == UDP_save(self, zero_checksum, recalculate_checksum_for)
         IN  [ok |-> TRUE, err |-> "none", bytes |-> saved.bytes, self |-> saved.self]

CodecInit ==
    /\ ListenerStarts(<< >>)
    /\ parked = NoListener
    /\ message_counter = 0
    /\ op = "init"
    /\ res = NoResult
    /\ \/ /\ kind = "value"
          /\ val \in ConstructedValues
          /\ cls = val.cls
          /\ buf = << >> /\ off = 0 /\ length = None
       \/ /\ kind = "buffer"
          /\ cls \in {"Ethernet", "IPv6", "UDP"}
          /\ off \in 0..MaxOffset
          /\ \E w \in Wires(cls) :
                /\ buf = [i \in 1..off |-> 238] \o w
                /\ length \in Lengths(cls, Len(w))
          /\ val = NoPacket
       \/ /\ kind = "bytes"
          /\ cls = "bytes"
          /\ buf \in Strings(MaxMsg)
          /\ off = 0 /\ length = None
          /\ val = NoPacket
       \/ /\ kind = "object"
          /\ val \in ValidateObjects
          /\ cls = val.type
          /\ buf = << >> /\ off = 0 /\ length = None
       \/ /\ kind = "call"
          /\ val \in SaveDatagrams \cup SavePackets
          /\ cls = val.cls
          /\ buf = << >> /\ off = 0 /\ length = None

\* v.save() on the constructed value
Serialize ==
    /\ kind = "value" /\ op = "init"
    /\ res' = save(val)
    /\ op' = "save"
    /\ UNCHANGED << kind, cls, val, buf, off, length, avars >>

\* type(v).parse(v.save())
ParseSaved ==
    /\ op = "save"
    /\ res' = [saved |-> res, parsed |-> parse(cls, res.bytes, 0, None)]
    /\ op' = "reparse"
    /\ UNCHANGED << kind, cls, val, buf, off, length, avars >>

\* p.payload.calculate_checksum(p) for an IPv6 packet p holding a datagram
CalculateChecksum ==
    /\ kind \in {"value", "call"} /\ op = "init"
    /\ cls = "IPv6" /\ val.payload.cls = "UDP"
    /\ res' = [checksum |-> calculate_checksum(val.payload, val)]
    /\ op' = "calculate_checksum"
    /\ UNCHANGED << kind, cls, val, buf, off, length, avars >>

\* a message as calculate_checksum hands it to the engine
Padded(msg) == IF Len(msg) % 2 = 1 THEN Append(msg, 0) ELSE msg

\* the receiver's check of the datagram sent with the checksum just
\* calculated: the engine over the pseudo header and the datagram as saved
VerifyChecksum ==
    /\ op = "calculate_checksum"
    /\ LET d == [val.payload EXCEPT !.checksum = res.checksum]
           msg == Padded(get_pseudo_header(val, d) \o UDP_save(d, FALSE, NoPacket).bytes)
       IN  res' = [checksum |-> res.checksum, message |-> msg,
                   verified |-> ones_complement_checksum(msg)]
    /\ op' = "verify"
    /\ UNCHANGED << kind, cls, val, buf, off, length, avars >>

\* cls.parse(buffer, offset, length)
Parse ==
    /\ kind = "buffer" /\ op = "init"
    /\ res' = parse(cls, buf, off, length)
    /\ op' = "parse"
    /\ UNCHANGED << kind, cls, val, buf, off, length, avars >>

\* save() of the element a successful parse returned
SaveParsed ==
    /\ op = "parse" /\ res.ok
    /\ res' = [parsed |-> res, saved |-> save(res.value)]
    /\ op' = "resave"
    /\ UNCHANGED << kind, cls, val, buf, off, length, avars >>

\* ones_complement_checksum(msg) on a raw byte string
Checksum ==
    /\ kind = "bytes" /\ op = "init"
    /\ res' = ones_complement_checksum(buf)
    /\ op' = "checksum"
    /\ UNCHANGED << kind, cls, val, buf, off, length, avars >>

\* message.validate() on an element with the attributes set
Validate ==
    /\ kind = "object" /\ op = "init"
    /\ res' = validate(val)
    /\ op' = "validate"
    /\ UNCHANGED << kind, cls, val, buf, off, length, avars >>

\* message.save(zero_checksum=..., recalculate_checksum_for=...) on a datagram
SaveWith(zero_checksum, recalculate_checksum_for) ==
    /\ kind = "call" /\ op = "init" /\ cls = "UDP"
    /\ res' = [zero_checksum |-> zero_checksum,
               recalculate_checksum_for |-> recalculate_checksum_for,
               saved |-> UDP_save_call(val, zero_checksum, recalculate_checksum_for)]
    /\ op' = "save_with"
    /\ UNCHANGED << kind, cls, val, buf, off, length, avars >>

\* packet.save() on a packet whose payload holds any checksum
SavePacket ==
    /\ kind = "call" /\ op = "init" /\ cls = "IPv6"
    /\ res' = IPv6_save(val)
    /\ op' = "save_packet"
    /\ UNCHANGED << kind, cls, val, buf, off, length, avars >>

CodecNext ==
    \/ \E zero_checksum \in BOOLEAN, p \in DummyPackets \cup {NoPacket} :
            SaveWith(zero_checksum, p)
    \/ SavePacket
    \/ Validate
    \/ Serialize
    \/ ParseSaved
    \/ CalculateChecksum
    \/ VerifyChecksum
    \/ Parse
    \/ SaveParsed
    \/ Checksum

CodecSpec == CodecInit /\ [][CodecNext]_vars

(***************************************************************************)
(* Reference definitions the claims are stated against                     *)
(***************************************************************************)
RECURSIVE WordSum(_)
\* the plain sum of the big-endian 16-bit words of msg, a trailing odd byte
\* padded with a zero byte
WordSum(msg) ==
    IF Len(msg) = 0 THEN 0
    ELSE IF Len(msg) = 1 THEN msg[1] * 256
    ELSE msg[1] * 256 + msg[2] + WordSum(SubSeq(msg, 3, Len(msg)))

\* the internet checksum: the complement of the sum taken with end-around
\* carry, that is modulo 65535 with 65535 standing for a non-zero multiple
InternetChecksum(msg) ==
    LET s == WordSum(msg)
    IN  65535 - (IF s = 0 THEN 0 ELSE ((s - 1) % 65535) + 1)

\* every discriminant of v names the variant of the payload v carries
IPv6Agrees(p) ==
    \/ p.next_header = 17 /\ p.payload.cls = "UDP"
    \/ p.next_header # 17 /\ p.payload.cls = "UnknownLayer4Protocol"

DiscriminantsAgree(v) ==
    IF v.cls = "Ethernet"
    THEN \/ v.ethertype = 34525 /\ v.payload.cls = "IPv6" /\ IPv6Agrees(v.payload)
         \/ v.ethertype # 34525 /\ v.payload.cls = "UnknownLayer3Packet"
    ELSE IF v.cls = "IPv6" THEN IPv6Agrees(v)
    ELSE TRUE

\* parse returned (length of the serialized bytes, the value serialized)
RoundTripHolds ==
    /\ res.parsed.ok
    /\ res.parsed.consumed = Len(res.saved.bytes)
    /\ res.parsed.value = res.saved.self

ChecksumMessage(d, p) ==
    p.source \o p.destination \o PackI(Len(d.payload) + 8) \o << 0, 0, 0, 17 >>
        \o PackH(d.source_port) \o PackH(d.destination_port)
        \o PackH(Len(d.payload) + 8) \o << 0, 0 >> \o d.payload

\* C2: calculate_checksum(p) is the internet checksum of source, destination,
\* 32-bit length, three zero bytes, 17 and the datagram with a zero checksum
\* field, padded to even length
C2_ChecksumOfPseudoHeaderAndDatagram ==
    op = "calculate_checksum" =>
        res.checksum = InternetChecksum(ChecksumMessage(val.payload, val))

\* the odd-length datagram of the tests got the checksum 42680
C2_Witness ==
    /\ op = "calculate_checksum"
    /\ val.payload.payload = DemoPayload15
    /\ val.source = AddrClient /\ val.destination = AddrServer
    /\ res.checksum = 42680

(***************************************************************************)
(* C4                                                                      *)
(***************************************************************************)
\* C4 as stated: the engine takes a byte string of any length without an
\* error and returns the checksum of the string padded to even length
C4_AnyLengthAccepted ==
    op = "checksum" => (res.ok /\ res.value = InternetChecksum(buf))

\* C4 amended: the engine takes a byte string of any even length and returns
\* its internet checksum; a string of odd length is not padded but refused
\* with an index error
C4_EvenLengthAccepted ==
    op = "checksum" =>
        IF Len(buf) % 2 = 0 THEN res.ok /\ res.value = InternetChecksum(buf)
        ELSE ~res.ok

\* a sum that carried out of 16 bits was folded
C4_Witness ==
    /\ op = "checksum" /\ Len(buf) = 4 /\ WordSum(buf) > 65535
    /\ res.ok /\ res.value = InternetChecksum(buf)

(***************************************************************************)
(* C5 .. C9: parse on a buffer, an offset and a length                     *)
(***************************************************************************)
\* the number of bytes handed to the parse under way
Room == Region(buf, off, length)

\* the 16-bit length field of the IPv6 or UDP header at the offset
DeclaredLength == UnpackH(buf, off + 4)

\* the header at the offset is a whole IPv6 header of version 6
IPv6HeaderRead == cls = "IPv6" /\ Room >= 40 /\ buf[off + 1] \div 16 = 6

\* the header at the offset is a whole UDP header declaring at least itself
UDPHeaderRead == cls = "UDP" /\ Room >= 8 /\ DeclaredLength >= 8

IsError(r, layer, err) == ~r.ok /\ r.layer = layer /\ r.err = err

\* C5: parse reads no byte at or beyond offset + max_length and consumes at
\* most max_length bytes, whatever max_length >= 0 it is handed
C5_ParseStaysWithinMaxLength ==
    op = "parse" =>
        /\ res.readEnd <= off + Room
        /\ res.ok => res.consumed <= Room

\* C6: a region shorter than the header (14, 40, 8), or a UDP header that
\* declares less than 8, fails with the too-short error; a region of exactly
\* the minimum length passes the layer's own length checks
C6_MinimumLengthEnforced ==
    op = "parse" =>
        /\ Room < HeaderSize(cls) => IsError(res, cls, "TooShort")
        /\ (cls = "UDP" /\ Room >= 8 /\ DeclaredLength < 8) => IsError(res, cls, "TooShort")
        /\ (Room = HeaderSize(cls) /\ (cls = "UDP" => DeclaredLength = 8)
                /\ (cls = "IPv6" => (IPv6HeaderRead /\ DeclaredLength = 0)))
            => (res.ok \/ res.layer # cls)

\* C7: once its header is read, IPv6 parse fails with its overrun error
\* exactly when the declared payload length exceeds the bytes left after the
\* 40-byte header, and UDP parse exactly when the declared length minus 8
\* exceeds the bytes left after the 8-byte header
C7_OverrunIffDeclaredExceedsRemaining ==
    op = "parse" =>
        /\ IPv6HeaderRead =>
              (IsError(res, "IPv6", "Overrun") <=> DeclaredLength > Room - 40)
        /\ UDPHeaderRead =>
              (IsError(res, "UDP", "Overrun") <=> DeclaredLength - 8 > Room - 8)

\* an IPv6 packet whose non-empty declared payload exactly fills the buffer
\* was accepted
C7_Witness ==
    /\ op = "parse" /\ IPv6HeaderRead
    /\ DeclaredLength > 0 /\ DeclaredLength = Room - 40
    /\ res.ok

\* the frame or packet at the offset carries an unregistered discriminant
\* and its declared payload lies within the region
UnknownEthertype == cls = "Ethernet" /\ Room >= 14 /\ UnpackH(buf, off + 12) # 34525

UnknownNextHeader == IPv6HeaderRead /\ buf[off + 7] # 17 /\ DeclaredLength <= Room - 40

\* where the declared bytes of the element at the offset end
DeclaredEnd == IF cls = "Ethernet" THEN off + Room ELSE off + 40 + DeclaredLength

\* C8: with an unregistered ethertype or next-header parse succeeds, the
\* payload is the layer's unknown variant holding the declared bytes after
\* the header verbatim, and serializing the parsed value gives back the
\* declared input bytes
C8_UnknownFallbackKeepsDeclaredBytes ==
    (UnknownEthertype \/ UnknownNextHeader) =>
        /\ op = "parse" =>
              /\ res.ok
              /\ res.value.payload.cls =
                    (IF cls = "Ethernet" THEN "UnknownLayer3Packet"
                     ELSE "UnknownLayer4Protocol")
              /\ res.value.payload.data = Slice(buf, off + HeaderSize(cls), DeclaredEnd)
        /\ op = "resave" => res.saved.bytes = Slice(buf, off, DeclaredEnd)

\* C9: when IPv6 parse succeeds and the declared payload length L is less
\* than the bytes left after the header, it consumed 40 + L bytes
C9_ConsumedIsDeclaredLength ==
    (op = "parse" /\ IPv6HeaderRead /\ res.ok /\ DeclaredLength < Room - 40)
        => res.consumed = 40 + DeclaredLength

(***************************************************************************)
(* listeners/vpp/vpp.py: VPPListener.recv_request and VPPReplier.send_reply*)
(***************************************************************************)
\* dhcpkit.ipv6.SERVER_PORT and CLIENT_PORT
SERVER_PORT == 547

CLIENT_PORT == 546

\* number of bundles after which no further datagram is received
MaxMessages == 2

\* number of send_reply calls made on one replier
MaxSends == 2

\* pack('ii', ...) / unpack_from('ii', ...): native 32-bit signed integers,
\* least significant byte first, two's complement
PackNativeI(n) ==
    << n % 256, (n \div 256) % 256, (n \div 65536) % 256, (n \div 16777216) % 256 >>

UnpackNativeI(buffer, offset) ==
    buffer[offset + 1] + 256 * buffer[offset + 2] + 65536 * buffer[offset + 3]
        + 16777216 * (IF buffer[offset + 4] >= 128 THEN buffer[offset + 4] - 256
                      ELSE buffer[offset + 4])

\* str.encode('utf-8') on a name given as code points below 2048
RECURSIVE EncodeUtf8(_)
EncodeUtf8(name) ==
    IF Len(name) = 0 THEN << >>
    ELSE (IF Head(name) < 128 THEN << Head(name) >>
          ELSE << 192 + (Head(name) \div 64), 128 + (Head(name) % 64) >>)
         \o EncodeUtf8(Tail(name))

HexDigits == << "0", "1", "2", "3", "4", "5", "6", "7", "8", "9", "A", "B", "C", "D", "E", "F" >>

RECURSIVE Hex(_)
Hex(n) == IF n < 16 THEN << HexDigits[n + 1] >>
          ELSE Hex(n \div 16) \o << HexDigits[(n % 16) + 1] >>

\* the message id keeping the last six hexadecimal digits only
message_id_of_six_digits(counter) ==
    << "#" >> \o [i \in 1..(6 - Len(Hex(counter % 16777216))) |-> "0"]
        \o Hex(counter % 16777216)

\* '#{:06X}'.format(message_counter)
message_id_of(counter) ==
    << "#" >> \o [i \in 1..(6 - Len(Hex(counter))) |-> "0"] \o Hex(counter)

\* dhcpkit's increase_message_counter(): the new value of the counter
increase_message_counter(counter) == counter + 1

\* the steps of recv_request in the order of the code
StepOrder == << "length", "action", "interface", "parse", "policy", "bundle" >>

\* raise: the call ends with the signal
Raise(sig) ==
    /\ pc' = "raised"
    /\ signal' = sig

\* data = self.listen_socket.recv(65536): a new call, the caller having
\* dealt with what the previous one returned
Recv(d) ==
    /\ pc \in {"idle", "returned", "raised"}
    /\ Len(returned_ids) < MaxMessages
    /\ data' = d
    /\ pc' = "received"
    /\ steps' = << >>
    /\ signal' = "none"
    /\ interface' = NoInterface
    /\ frame' = NoPacket
    /\ bundle' = NoBundle
    /\ replier' = NoReplier
    /\ written' = NoWrite
    /\ send_result' = "none"
    /\ send_calls' = 0
    /\ writes' = 0
    /\ sent_message' = NoMessage
    /\ UNCHANGED << interfaces, marks, message_counter, cvars, returned_ids,
                    pvars >>

\* if len(data) < 70: raise IncompleteMessage
CheckLength ==
    /\ pc = "received"
    /\ steps' = Append(steps, "length")
    /\ IF Len(data) < 70 THEN Raise("IncompleteMessage")
       ELSE pc' = "length_ok" /\ signal' = signal
    /\ UNCHANGED << interfaces, marks, data, interface, frame, bundle, replier,
                    message_counter, written, send_result, cvars, svars,
                    returned_ids, pvars >>

\* the action check letting every action through
CheckAction_unchecked ==
    /\ pc = "length_ok"
    /\ steps' = Append(steps, "action")
    /\ pc' = "action_ok" /\ signal' = signal
    /\ UNCHANGED << interfaces, marks, data, interface, frame, bundle, replier,
                    message_counter, written, send_result, cvars, svars,
                    returned_ids, pvars >>

\* if_index, action = unpack_from('ii', data); if action != 0: raise
CheckAction ==
    /\ pc = "length_ok"
    /\ steps' = Append(steps, "action")
    /\ IF UnpackNativeI(data, 4) # 0 THEN Raise("UnknownVPPAction")
       ELSE pc' = "action_ok" /\ signal' = signal
    /\ UNCHANGED << interfaces, marks, data, interface, frame, bundle, replier,
                    message_counter, written, send_result, cvars, svars,
                    returned_ids, pvars >>

\* the interface lookup taking the message counter as soon as the interface
\* is known
ResolveInterface_counting ==
    /\ pc = "action_ok"
    /\ steps' = Append(steps, "interface")
    /\ LET if_index == UnpackNativeI(data, 0)
           matching == {i \in 1..Len(interfaces) : interfaces[i].index = if_index}
       IN  IF matching = {}
           THEN Raise("UnknownVPPInterface") /\ interface' = interface
                /\ message_counter' = message_counter
           ELSE /\ interface' = interfaces[CHOOSE i \in matching : \A j \in matching : i <= j]
                /\ pc' = "interface_ok" /\ signal' = signal
                /\ message_counter' = increase_message_counter(message_counter)
    /\ UNCHANGED << interfaces, marks, data, frame, bundle, replier,
                    written, send_result, cvars, svars,
                    returned_ids, pvars >>

\* the for loop over self.interfaces: the first interface with the index
ResolveInterface ==
    /\ pc = "action_ok"
    /\ steps' = Append(steps, "interface")
    /\ LET if_index == UnpackNativeI(data, 0)
           matching == {i \in 1..Len(interfaces) : interfaces[i].index = if_index}
       IN  IF matching = {}
           THEN Raise("UnknownVPPInterface") /\ interface' = interface
           ELSE /\ interface' = interfaces[CHOOSE i \in matching : \A j \in matching : i <= j]
                /\ pc' = "interface_ok" /\ signal' = signal
    /\ UNCHANGED << interfaces, marks, data, frame, bundle, replier,
                    message_counter, written, send_result, cvars, svars,
                    returned_ids, pvars >>

\* the test of the parsed frame without its destination port
IsWanted_any_port(r) ==
    /\ r.ok
    /\ r.value.cls = "Ethernet"
    /\ r.value.payload.cls = "IPv6"
    /\ r.value.payload.payload.cls = "UDP"

\* the frame is Ethernet carrying IPv6 carrying UDP to the server port
IsWanted(r) ==
    /\ r.ok
    /\ r.value.cls = "Ethernet"
    /\ r.value.payload.cls = "IPv6"
    /\ r.value.payload.payload.cls = "UDP"
    /\ r.value.payload.payload.destination_port = SERVER_PORT

\* the parse step without the except clause: the codec's ValueError leaves
\* the call as it is
ParseFrame_uncaught ==
    /\ pc = "interface_ok"
    /\ steps' = Append(steps, "parse")
    /\ LET r == Ethernet_load_from(data, 8, None)
       IN  IF IsWanted(r)
           THEN frame' = r.value /\ pc' = "parsed" /\ signal' = signal
           ELSE IF r.ok THEN Raise("UnwantedVPPMessage") /\ frame' = frame
           ELSE Raise("ValueError") /\ frame' = frame
    /\ UNCHANGED << interfaces, marks, data, interface, bundle, replier,
                    message_counter, written, send_result, cvars, svars,
                    returned_ids, pvars >>

\* try: Ethernet.parse(data, offset=8) and the isinstance / port test;
\* except ValueError: raise UnwantedVPPMessage
ParseFrame ==
    /\ pc = "interface_ok"
    /\ steps' = Append(steps, "parse")
    /\ LET r == Ethernet_load_from(data, 8, None)
       IN  IF IsWanted(r)
           THEN frame' = r.value /\ pc' = "parsed" /\ signal' = signal
           ELSE Raise("UnwantedVPPMessage") /\ frame' = frame
    /\ UNCHANGED << interfaces, marks, data, interface, bundle, replier,
                    message_counter, written, send_result, cvars, svars,
                    returned_ids, pvars >>

\* the permission check with the two accept flags exchanged
CheckPolicy_exchanged ==
    /\ pc = "parsed"
    /\ steps' = Append(steps, "policy")
    /\ IF is_multicast(frame.payload.destination)
       THEN IF ~interface.accept_unicast THEN Raise("UnwantedVPPMessage")
            ELSE pc' = "policy_ok" /\ signal' = signal
       ELSE IF ~interface.accept_multicast THEN Raise("UnwantedVPPMessage")
            ELSE pc' = "policy_ok" /\ signal' = signal
    /\ UNCHANGED << interfaces, marks, data, interface, frame, bundle, replier,
                    message_counter, written, send_result, cvars, svars,
                    returned_ids, pvars >>

\* the permission check on the destination address
CheckPolicy ==
    /\ pc = "parsed"
    /\ steps' = Append(steps, "policy")
    /\ IF is_multicast(frame.payload.destination)
       THEN IF ~interface.accept_multicast THEN Raise("UnwantedVPPMessage")
            ELSE pc' = "policy_ok" /\ signal' = signal
       ELSE IF ~interface.accept_unicast THEN Raise("UnwantedVPPMessage")
            ELSE pc' = "policy_ok" /\ signal' = signal
    /\ UNCHANGED << interfaces, marks, data, interface, frame, bundle, replier,
                    message_counter, written, send_result, cvars, svars,
                    returned_ids, pvars >>

\* the message id, the IncomingPacketBundle and the VPPReplier; return
MakeBundle ==
    /\ pc = "policy_ok"
    /\ steps' = Append(steps, "bundle")
    /\ message_counter' = increase_message_counter(message_counter)
    /\ bundle' = [message_id |-> message_id_of(message_counter'),
                  data |-> frame.payload.payload.payload,
                  source_address |-> frame.payload.source,
                  link_address |-> interface.link_address,
                  interface_index |-> interface.index,
                  received_over_multicast |-> is_multicast(frame.payload.destination),
                  received_over_tcp |-> FALSE,
                  marks |-> marks,
                  relay_options |->
                      << [cls |-> "InterfaceIdOption",
                          interface_id |-> EncodeUtf8(interface.name)],
                         [cls |-> "LinkLayerIdOption", link_layer_type |-> 1,
                          link_layer_address |-> frame.source] >>]
    /\ replier' = [interface_index |-> interface.index,
                   interface_mac_address |-> interface.mac_address,
                   client_mac_address |-> frame.source,
                   reply_from |-> interface.reply_from,
                   reply_socket |-> "listen_socket"]
    /\ returned_ids' = Append(returned_ids, message_id_of(message_counter'))
    /\ pc' = "returned"
    /\ UNCHANGED << interfaces, marks, data, interface, frame, signal,
                    written, send_result, cvars, svars, pvars >>

\* the destination port being the client port for every reply
reply_port_client(reply) == CLIENT_PORT

\* port = isinstance(reply, RelayReplyMessage) and SERVER_PORT or CLIENT_PORT
reply_port(reply) ==
    IF reply.cls = "RelayReplyMessage" THEN SERVER_PORT ELSE CLIENT_PORT

\* the frame with the two MAC addresses exchanged
reply_frame_exchanged(self, outgoing_message) ==
    LET reply == outgoing_message.relayed_message
        port == reply_port(reply)
    IN  [cls |-> "Ethernet",
         destination |-> self.interface_mac_address,
         source |-> self.client_mac_address,
         ethertype |-> 34525,
         payload |-> [cls |-> "IPv6", traffic_class |-> 192, flow_label |-> 0,
                      next_header |-> 17, hop_limit |-> 63,
                      source |-> self.reply_from,
                      destination |-> outgoing_message.peer_address,
                      payload |-> [cls |-> "UDP", source_port |-> SERVER_PORT,
                                   destination_port |-> port, checksum |-> 0,
                                   payload |-> reply.data]]]

\* the frame send_reply builds for an outgoing message
reply_frame(self, outgoing_message) ==
    LET reply == outgoing_message.relayed_message
        port == reply_port(reply)
    IN  [cls |-> "Ethernet",
         destination |-> self.client_mac_address,
         source |-> self.interface_mac_address,
         ethertype |-> 34525,
         payload |-> [cls |-> "IPv6", traffic_class |-> 192, flow_label |-> 0,
                      next_header |-> 17, hop_limit |-> 63,
                      source |-> self.reply_from,
                      destination |-> outgoing_message.peer_address,
                      payload |-> [cls |-> "UDP", source_port |-> SERVER_PORT,
                                   destination_port |-> port, checksum |-> 0,
                                   payload |-> reply.data]]]

\* data = pack('ii', self.interface_index, 0) + frame.save()
reply_data(self, outgoing_message) ==
    PackNativeI(self.interface_index) \o PackNativeI(0)
        \o Ethernet_save(reply_frame(self, outgoing_message)).bytes

\* send_reply sending once more after a partial send
SendReply_retrying(outgoing_message, outcome) ==
    /\ pc = "returned"
    /\ send_calls < MaxSends
    /\ send_calls' = send_calls + 1
    /\ sent_message' = outgoing_message
    /\ LET out == reply_data(replier, outgoing_message)
           sent_length == IF outcome = "all" THEN Len(out)
                          ELSE IF outcome = "part" THEN Len(out) - 1 ELSE -1
           success == Len(out) = sent_length
       IN  /\ written' = [data |-> out, sent_length |-> sent_length]
           /\ writes' = IF outcome = "part" THEN writes + 2 ELSE writes + 1
           /\ send_result' = IF outcome = "error" THEN "OSError"
                             ELSE IF success THEN "True" ELSE "False"
    /\ UNCHANGED << interfaces, marks, pc, data, interface, frame, steps, signal,
                    bundle, replier, message_counter, cvars, returned_ids,
                    pvars >>

\* replier.send_reply(outgoing_message) on the replier the call returned;
\* the socket takes all of the datagram or a part of it, or send raises;
\* reply_socket.send is called once
SendReply(outgoing_message, outcome) ==
    /\ pc = "returned"
    /\ send_calls < MaxSends
    /\ send_calls' = send_calls + 1
    /\ sent_message' = outgoing_message
    /\ LET out == reply_data(replier, outgoing_message)
           sent_length == IF outcome = "all" THEN Len(out)
                          ELSE IF outcome = "part" THEN Len(out) - 1 ELSE -1
           success == Len(out) = sent_length
       IN  /\ written' = [data |-> out, sent_length |-> sent_length]
           /\ writes' = writes + 1
           /\ send_result' = IF outcome = "error" THEN "OSError"
                             ELSE IF success THEN "True" ELSE "False"
    /\ UNCHANGED << interfaces, marks, pc, data, interface, frame, steps, signal,
                    bundle, replier, message_counter, cvars, returned_ids,
                    pvars >>

(***************************************************************************)
(* Inputs of the listener: its interfaces, the datagrams VPP punts and the *)
(* messages the server answers with                                        *)
(***************************************************************************)
\* 2001:9e0:4:32::1, ff02::1 and fe80::3:2002, packed
AddrLink == << 32, 1, 9, 224, 0, 4, 0, 50, 0, 0, 0, 0, 0, 0, 0, 1 >>

AddrAllNodes == << 255, 2, 0, 0, 0, 0, 0, 0, 0, 0, 0, 0, 0, 0, 0, 1 >>

AddrLinkLocal == << 254, 128, 0, 0, 0, 0, 0, 0, 0, 0, 0, 0, 0, 3, 32, 2 >>

MacC == << 2, 0, 0, 0, 0, 2 >>

\* interface 1 ("eth1") with the accept flags au / am, and interface 2
\* ("café") accepting multicast only
InterfaceSets ==
    { << [name |-> << 101, 116, 104, 49 >>, index |-> 1, mac_address |-> MacA,
          accept_unicast |-> au, accept_multicast |-> am,
          reply_from |-> AddrServer, link_address |-> AddrLink],
         [name |-> << 99, 97, 102, 233 >>, index |-> 2, mac_address |-> MacC,
          accept_unicast |-> FALSE, accept_multicast |-> TRUE,
          reply_from |-> AddrLinkLocal, link_address |-> AddrLink] >> :
        au \in BOOLEAN, am \in BOOLEAN }

\* DHCPv6 messages as bytes: nothing, and a Solicit with a transaction id
DhcpMessages == { << >>, << 1, 18, 52, 86 >> }

\* a frame whose length fields fit its payload
FittingFrame(et, nh, src, dst, dport, msg) ==
    RawEthernet(et, RawIPv6(6, << 0, 0 >>, 8 + Len(msg), nh, src, dst,
                            RawUDP(dport, 8 + Len(msg), 0, msg)))

\* a frame to the server port with IPv6 version ver, declared IPv6 payload
\* length ipl and declared UDP length udl
OddFrame(ver, ipl, udl, msg) ==
    RawEthernet(34525, RawIPv6(ver, << 0, 0 >>, ipl, 17, AddrClient, AddrAllServers,
                               RawUDP(SERVER_PORT, udl, 0, msg)))

\* the frame f with ck in the checksum field of its datagram
WithFrameChecksum(f, ck) ==
    [f EXCEPT ![14 + 40 + 7] = ck \div 256, ![14 + 40 + 8] = ck % 256]

\* the checksum a sender calculates for the Solicit of DhcpMessages sent from
\* AddrClient to AddrAllServers
SolicitChecksum ==
    calculate_checksum([cls |-> "UDP", source_port |-> 4660,
                        destination_port |-> SERVER_PORT, checksum |-> 0,
                        payload |-> << 1, 18, 52, 86 >>],
                       [cls |-> "IPv6", source |-> AddrClient,
                        destination |-> AddrAllServers])

PuntedFrames ==
    {FittingFrame(et, nh, src, dst, dport, msg) :
        et \in {34525, 2048}, nh \in {17, 58}, src \in {AddrClient, AddrAllNodes},
        dst \in {AddrServer, AddrAllServers}, dport \in {SERVER_PORT, CLIENT_PORT},
        msg \in DhcpMessages}
    \cup UNION {{OddFrame(5, 8 + Len(msg), 8 + Len(msg), msg),
                 OddFrame(6, 0, 8 + Len(msg), msg),
                 OddFrame(6, 9 + Len(msg), 8 + Len(msg), msg),
                 OddFrame(6, 8 + Len(msg), 9 + Len(msg), msg),
                 OddFrame(6, 8 + Len(msg), 7, msg)} : msg \in DhcpMessages}
    \cup {WithFrameChecksum(FittingFrame(34525, 17, AddrClient, AddrAllServers,
                                         SERVER_PORT, << 1, 18, 52, 86 >>), ck) :
            ck \in {65535, 12345, SolicitChecksum}}

Envelope(if_index, action) == PackNativeI(if_index) \o PackNativeI(action)

\* what recv returns: an envelope and a frame, or such a datagram cut short
Datagrams ==
    {Envelope(ix, act) \o f : ix \in {1, 2, 9}, act \in {0, 1}, f \in PuntedFrames}
    \cup {SubSeq(Envelope(ix, act)
                    \o FittingFrame(et, 17, AddrClient, AddrAllServers, SERVER_PORT, << >>),
                 1, k) :
            ix \in {1, 9}, act \in {0, -1}, et \in {34525, 2048}, k \in {0, 7, 8, 69}}

\* what the server hands to send_reply: the relayed message (its class and
\* its saved bytes) and the peer address of the wrapping relay-reply
OutgoingMessages ==
    {[relayed_message |-> rm, peer_address |-> pa] :
        rm \in {[cls |-> "ReplyMessage", data |-> << 7, 18, 52, 86 >>],
                [cls |-> "ReplyMessage", data |-> << 7, 0, 123, 233 >>],
                [cls |-> "RelayReplyMessage",
                 data |-> << 13, 0 >> \o AddrLink \o AddrClient]},
        pa \in {AddrClient, AddrLinkLocal}}

(***************************************************************************)
(* Two listeners in one process. The variables of the listener stand for   *)
(* the one that is running; the other one is kept aside until the process  *)
(* turns to it. The message counter belongs to the process.                *)
(***************************************************************************)
\* the attributes and the call state of the listener that is running
LiveListener ==
    [interfaces |-> interfaces, marks |-> marks, pc |-> pc, data |-> data,
     interface |-> interface, frame |-> frame, steps |-> steps, signal |-> signal,
     bundle |-> bundle, replier |-> replier, written |-> written,
     send_result |-> send_result, send_calls |-> send_calls, writes |-> writes,
     sent_message |-> sent_message, returned_ids |-> returned_ids]

\* a listener over the interfaces ifs before its first recv_request
Started(ifs) ==
    [interfaces |-> ifs, marks |-> << "vpp" >>, pc |-> "idle", data |-> << >>,
     interface |-> NoInterface, frame |-> NoPacket, steps |-> << >>,
     signal |-> "none", bundle |-> NoBundle, replier |-> NoReplier,
     written |-> NoWrite, send_result |-> "none", send_calls |-> 0, writes |-> 0,
     sent_message |-> NoMessage, returned_ids |-> << >>]

\* the process turning to the other listener, the two listeners holding one
\* list of interfaces between them
Switch_one_interface_list ==
    /\ parked # NoListener
    /\ live' = 3 - live
    /\ parked' = LiveListener
    /\ interfaces' = interfaces
    /\ marks' = parked.marks
    /\ pc' = parked.pc
    /\ data' = parked.data
    /\ interface' = parked.interface
    /\ frame' = parked.frame
    /\ steps' = parked.steps
    /\ signal' = parked.signal
    /\ bundle' = parked.bundle
    /\ replier' = parked.replier
    /\ written' = parked.written
    /\ send_result' = parked.send_result
    /\ send_calls' = parked.send_calls
    /\ writes' = parked.writes
    /\ sent_message' = parked.sent_message
    /\ returned_ids' = parked.returned_ids
    /\ UNCHANGED << message_counter, cvars >>

\* the process turning to the other listener: each listener has its own
\* interfaces, socket and marks, and its calls their own locals
Switch ==
    /\ parked # NoListener
    /\ live' = 3 - live
    /\ parked' = LiveListener
    /\ interfaces' = parked.interfaces
    /\ marks' = parked.marks
    /\ pc' = parked.pc
    /\ data' = parked.data
    /\ interface' = parked.interface
    /\ frame' = parked.frame
    /\ steps' = parked.steps
    /\ signal' = parked.signal
    /\ bundle' = parked.bundle
    /\ replier' = parked.replier
    /\ written' = parked.written
    /\ send_result' = parked.send_result
    /\ send_calls' = parked.send_calls
    /\ writes' = parked.writes
    /\ sent_message' = parked.sent_message
    /\ returned_ids' = parked.returned_ids
    /\ UNCHANGED << message_counter, cvars >>

\* the interfaces of the first and of the second listener: both know an
\* interface 1, with different addresses and different accept flags
PairInterfaces ==
    << << [name |-> << 101, 116, 104, 49 >>, index |-> 1, mac_address |-> MacA,
           accept_unicast |-> TRUE, accept_multicast |-> FALSE,
           reply_from |-> AddrServer, link_address |-> AddrLink] >>,
       << [name |-> << 99, 97, 102, 233 >>, index |-> 1, mac_address |-> MacC,
           accept_unicast |-> FALSE, accept_multicast |-> TRUE,
           reply_from |-> AddrLinkLocal, link_address |-> AddrLink],
          [name |-> << 101, 116, 104, 50 >>, index |-> 2, mac_address |-> MacC,
           accept_unicast |-> TRUE, accept_multicast |-> TRUE,
           reply_from |-> AddrLinkLocal, link_address |-> AddrLink] >> >>

\* what arrives on the two sockets: a Solicit to the servers' multicast
\* address and to the server's address on interface 1, one on interface 2,
\* and one with an unknown action
PairDatagrams ==
    { Envelope(1, 0) \o FittingFrame(34525, 17, AddrClient, AddrAllServers,
                                     SERVER_PORT, << 1, 18, 52, 86 >>),
      Envelope(1, 0) \o FittingFrame(34525, 17, AddrClient, AddrServer,
                                     SERVER_PORT, << 1, 18, 52, 86 >>),
      Envelope(2, 0) \o FittingFrame(34525, 17, AddrClient, AddrAllServers,
                                     SERVER_PORT, << >>),
      Envelope(1, 1) \o FittingFrame(34525, 17, AddrClient, AddrAllServers,
                                     SERVER_PORT, << >>) }

PairOutgoingMessages ==
    { [relayed_message |-> [cls |-> "ReplyMessage", data |-> << 7, 18, 52, 86 >>],
       peer_address |-> AddrClient],
      [relayed_message |-> [cls |-> "RelayReplyMessage",
                            data |-> << 13, 0 >> \o AddrLink \o AddrClient],
       peer_address |-> AddrLinkLocal] }

PairInit ==
    /\ ListenerStarts(PairInterfaces[1])
    /\ parked = Started(PairInterfaces[2])
    /\ message_counter = 0
    /\ kind = "none" /\ cls = "none" /\ val = NoPacket
    /\ buf = << >> /\ off = 0 /\ length = None
    /\ op = "init" /\ res = NoResult

PairNext ==
    \/ \E d \in PairDatagrams : Recv(d)
    \/ CheckLength
    \/ CheckAction
    \/ ResolveInterface
    \/ ParseFrame
    \/ CheckPolicy
    \/ MakeBundle
    \/ \E m \in PairOutgoingMessages, outcome \in {"all", "part", "error"} :
          SendReply(m, outcome)
    \/ Switch

PairSpec == PairInit /\ [][PairNext]_vars

(***************************************************************************)
(* The listener: recv_request calls, each followed by any number of        *)
(* send_reply calls on the replier it returned                             *)
(***************************************************************************)
Init ==
    /\ \E ifs \in InterfaceSets : ListenerStarts(ifs)
    /\ parked = NoListener
    /\ message_counter \in CounterStarts
    /\ kind = "none" /\ cls = "none" /\ val = NoPacket
    /\ buf = << >> /\ off = 0 /\ length = None
    /\ op = "init" /\ res = NoResult

Next ==
    \/ \E d \in Datagrams : Recv(d)
    \/ CheckLength
    \/ CheckAction
    \/ ResolveInterface
    \/ ParseFrame
    \/ CheckPolicy
    \/ MakeBundle
    \/ \E m \in OutgoingMessages, outcome \in {"all", "part", "error"} : SendReply(m, outcome)

Spec == Init /\ [][Next]_vars

(***************************************************************************)
(* Claims about the listener                                               *)
(***************************************************************************)
\* the offset of the UDP checksum field in a written datagram: the envelope,
\* the Ethernet header, the IPv6 header and six bytes of the UDP header
ChecksumFieldOffset == 8 + 14 + 40 + 6

\* C3: the UDP checksum field of every datagram send_reply hands to the
\* socket is never zero, it is in 1..65535
C3_ChecksumNeverZero ==
    written # NoWrite => UnpackH(written.data, ChecksumFieldOffset) \in 1..65535

\* the steps of recv_request a datagram d fails, each judged on its own
FailingSteps(d) ==
    LET if_matching == IF Len(d) >= 4
                       THEN {i \in 1..Len(interfaces) :
                                interfaces[i].index = UnpackNativeI(d, 0)}
                       ELSE {}
        parsed == Ethernet_load_from(d, 8, None)
        destination == parsed.value.payload.destination
    IN  {k \in 1..5 :
            \/ k = 1 /\ Len(d) < 70
            \/ k = 2 /\ Len(d) >= 8 /\ UnpackNativeI(d, 4) # 0
            \/ k = 3 /\ if_matching = {}
            \/ k = 4 /\ ~IsWanted(parsed)
            \/ k = 5 /\ IsWanted(parsed) /\ if_matching # {}
                     /\ \E i \in if_matching :
                            /\ \A j \in if_matching : i <= j
                            /\ IF is_multicast(destination)
                               THEN ~interfaces[i].accept_multicast
                               ELSE ~interfaces[i].accept_unicast}

\* the signal each of the five checking steps raises
StepSignal == << "IncompleteMessage", "UnknownVPPAction", "UnknownVPPInterface",
                 "UnwantedVPPMessage", "UnwantedVPPMessage" >>

Earliest(S) == CHOOSE k \in S : \A j \in S : k <= j

\* C10: the steps run in the fixed order length, action, interface, parse,
\* policy, bundle; a call that raises has run exactly the steps up to the
\* earliest step the datagram fails and raises that step's signal; a call
\* that returns has run all six steps on a datagram failing none
C10_EarliestFailingStepDecides ==
    /\ Len(steps) <= Len(StepOrder)
    /\ steps = SubSeq(StepOrder, 1, Len(steps))
    /\ pc = "raised" =>
          /\ FailingSteps(data) # {}
          /\ signal = StepSignal[Earliest(FailingSteps(data))]
          /\ Len(steps) = Earliest(FailingSteps(data))
    /\ pc = "returned" =>
          /\ FailingSteps(data) = {}
          /\ steps = StepOrder
          /\ signal = "none"

\* a datagram with an unknown action, from an unknown interface, carrying
\* an unwanted frame: rejected as UnknownVPPAction after two steps
C10_Witness ==
    /\ pc = "raised"
    /\ signal = "UnknownVPPAction"
    /\ {2, 3, 4} \subseteq FailingSteps(data)
    /\ steps = << "length", "action" >>

\* the IPv6 destination address of the frame in datagram d, read from its
\* bytes: after the envelope, the Ethernet header and 24 bytes of IPv6 header
DestinationOf(d) == SubSeq(d, 8 + 14 + 24 + 1, 8 + 14 + 40)

\* the first configured interface with the index of the envelope of d
ResolvedInterface(d) ==
    interfaces[CHOOSE i \in 1..Len(interfaces) :
                  /\ interfaces[i].index = UnpackNativeI(d, 0)
                  /\ \A j \in 1..(i - 1) : interfaces[j].index # UnpackNativeI(d, 0)]

\* the interface's flag for the kind of destination of d is set
PolicyAllows(d) ==
    IF DestinationOf(d)[1] = 255 THEN ResolvedInterface(d).accept_multicast
    ELSE ResolvedInterface(d).accept_unicast

\* C11: recv_request returns a bundle only if the resolved interface accepts
\* the kind of destination (multicast or not) of the frame, a call that got
\* to the policy check with the flag unset raises UnwantedVPPMessage, and the
\* bundle's multicast flag is whether the destination is multicast
C11_PolicyGating ==
    /\ pc = "returned" =>
          /\ PolicyAllows(data)
          /\ bundle.received_over_multicast = (DestinationOf(data)[1] = 255)
    /\ (Len(steps) >= 5 /\ ~PolicyAllows(data)) =>
          pc = "raised" /\ signal = "UnwantedVPPMessage" /\ bundle = NoBundle
    /\ (Len(steps) >= 5 /\ PolicyAllows(data)) => pc \in {"policy_ok", "returned"}

\* a multicast frame on an interface refusing multicast but taking unicast
C11_Witness ==
    /\ pc = "raised"
    /\ Len(steps) = 5
    /\ DestinationOf(data)[1] = 255
    /\ ~ResolvedInterface(data).accept_multicast
    /\ ResolvedInterface(data).accept_unicast

\* the signals the caller ignores: IncompleteMessage and the three of
\* listeners/vpp/__init__.py
IgnorableSignals == {"IncompleteMessage", "UnknownVPPAction", "UnknownVPPInterface",
                     "UnwantedVPPMessage"}

\* a step of the recv_request call under way
RecvStep ==
    CheckLength \/ CheckAction \/ ResolveInterface \/ ParseFrame \/ CheckPolicy
        \/ MakeBundle

\* C12: a recv_request call under way always has a next step and ends either
\* returning a bundle and a replier or raising one of the four ignorable
\* signals; when the codecs fail on the punted frame (too short, wrong
\* version, overrun) the call raises UnwantedVPPMessage
C12_OnlyIgnorableSignals ==
    /\ pc \notin {"idle", "returned", "raised"} => ENABLED RecvStep
    /\ pc = "raised" =>
          signal \in IgnorableSignals /\ bundle = NoBundle /\ replier = NoReplier
    /\ pc = "returned" =>
          signal = "none" /\ bundle # NoBundle /\ replier # NoReplier
    /\ (Len(steps) >= 4 /\ ~Ethernet_load_from(data, 8, None).ok) =>
          /\ Ethernet_load_from(data, 8, None).err \in {"TooShort", "WrongVersion", "Overrun"}
          /\ pc = "raised" /\ signal = "UnwantedVPPMessage"

\* a frame whose declared length overruns the datagram, rejected
C12_Witness ==
    /\ pc = "raised"
    /\ Len(steps) = 4
    /\ ~Ethernet_load_from(data, 8, None).ok
    /\ Ethernet_load_from(data, 8, None).err = "Overrun"
    /\ signal = "UnwantedVPPMessage"

\* the ethertype, the next-header, the UDP destination port and the UDP
\* length of the frame in datagram d, read from its bytes
EthertypeOf(d) == UnpackH(d, 8 + 12)

NextHeaderOf(d) == d[8 + 14 + 6 + 1]

DestinationPortOf(d) == UnpackH(d, 8 + 14 + 40 + 2)

UDPLengthOf(d) == UnpackH(d, 8 + 14 + 40 + 4)

\* C13: recv_request returns a bundle only for a frame with ethertype
\* 0x86DD, next-header 17 and UDP destination port 547; a call that got to
\* the parse step with another ethertype, next-header or destination port
\* raises UnwantedVPPMessage; the bundle's data are the payload bytes of
\* the UDP datagram
C13_OnlyServerPortDatagrams ==
    /\ pc = "returned" =>
          /\ EthertypeOf(data) = 34525
          /\ NextHeaderOf(data) = 17
          /\ DestinationPortOf(data) = SERVER_PORT
          /\ bundle.data = SubSeq(data, 70 + 1, 70 + UDPLengthOf(data) - 8)
    /\ (/\ Len(steps) >= 4
        /\ \/ EthertypeOf(data) # 34525
           \/ NextHeaderOf(data) # 17
           \/ DestinationPortOf(data) # SERVER_PORT) =>
          pc = "raised" /\ signal = "UnwantedVPPMessage"

\* a well-formed IPv6 UDP frame to the client port, rejected at the parse step
C13_Witness ==
    /\ pc = "raised"
    /\ Len(steps) = 4
    /\ Ethernet_load_from(data, 8, None).ok
    /\ EthertypeOf(data) = 34525
    /\ NextHeaderOf(data) = 17
    /\ DestinationPortOf(data) = CLIENT_PORT
    /\ signal = "UnwantedVPPMessage"

\* C14: a send_reply call ends with a boolean, true exactly when the socket
\* took the whole datagram, and never with an error
C14_SendReportsBoolean ==
    send_calls > 0 =>
        /\ send_result \in {"True", "False"}
        /\ (send_result = "True") <=> (written.sent_length = Len(written.data))

\* C15: every send_reply call calls the socket's send exactly once, whatever
\* the earlier sends on the replier came to
C15_OneWritePerSend ==
    /\ writes = send_calls
    /\ send_calls = 0 <=> written = NoWrite

\* a second send_reply call on a replier, the socket taking a part only
C15_Witness ==
    /\ send_calls = 2
    /\ writes = 2
    /\ written.sent_length < Len(written.data)
    /\ send_result = "False"

\* C16: the datagram send_reply writes on the replier returned for a frame
\* goes to the listen socket and starts with the interface index of the
\* frame's envelope and action 0; its Ethernet destination is the frame's
\* source MAC, its Ethernet source the resolved interface's MAC, its
\* ethertype 0x86DD, its IPv6 source the interface's reply-from address, its
\* next-header 17 and its UDP source port 547
C16_ReplyPairsWithRequest ==
    send_calls > 0 =>
        /\ replier.reply_socket = "listen_socket"
        /\ SubSeq(written.data, 1, 4) = SubSeq(data, 1, 4)
        /\ SubSeq(written.data, 5, 8) = << 0, 0, 0, 0 >>
        /\ SubSeq(written.data, 8 + 1, 8 + 6) = SubSeq(data, 8 + 6 + 1, 8 + 12)
        /\ SubSeq(written.data, 8 + 6 + 1, 8 + 12) = ResolvedInterface(data).mac_address
        /\ EthertypeOf(written.data) = 34525
        /\ SubSeq(written.data, 8 + 14 + 8 + 1, 8 + 14 + 24)
               = ResolvedInterface(data).reply_from
        /\ NextHeaderOf(written.data) = 17
        /\ UnpackH(written.data, 8 + 14 + 40) = SERVER_PORT

\* a reply on the replier of a frame that came in over the second interface
C16_Witness ==
    /\ send_calls > 0
    /\ UnpackNativeI(data, 0) = 2
    /\ SubSeq(written.data, 8 + 6 + 1, 8 + 12) = MacC
    /\ SubSeq(written.data, 8 + 1, 8 + 6) # MacC

\* C17: the UDP destination port of the written datagram is 547 exactly when
\* the relayed message is a RelayReplyMessage, and 546 otherwise
C17_DestinationPortByMessageKind ==
    send_calls > 0 =>
        /\ DestinationPortOf(written.data) \in {SERVER_PORT, CLIENT_PORT}
        /\ (DestinationPortOf(written.data) = SERVER_PORT)
               <=> (sent_message.relayed_message.cls = "RelayReplyMessage")

\* a relay-reply inside the outgoing message, sent to the server port
C17_Witness ==
    /\ send_calls > 0
    /\ sent_message.relayed_message.cls = "RelayReplyMessage"
    /\ DestinationPortOf(written.data) = SERVER_PORT

\* the number a string of hexadecimal digits stands for
RECURSIVE HexNumber(_)
HexNumber(digits) ==
    IF Len(digits) = 0 THEN 0
    ELSE 16 * HexNumber(SubSeq(digits, 1, Len(digits) - 1))
         + (CHOOSE n \in 0..15 : HexDigits[n + 1] = digits[Len(digits)])

\* the number of a message id "#..."
IdNumber(id) == HexNumber(Tail(id))

\* C18: the message ids of the bundles returned are strictly increasing in
\* the order the bundles are returned, and no two bundles share an id
C18_MessageIdsIncrease ==
    /\ \A i, j \in 1..Len(returned_ids) :
          i < j => /\ IdNumber(returned_ids[i]) < IdNumber(returned_ids[j])
                   /\ returned_ids[i] # returned_ids[j]
    /\ pc = "returned" => bundle.message_id = returned_ids[Len(returned_ids)]

\* two bundles returned, the second id one digit longer than the first
C18_Witness ==
    /\ Len(returned_ids) = 2
    /\ returned_ids[1] = << "#", "F", "F", "F", "F", "F", "F" >>
    /\ Len(returned_ids[2]) = 8

\* what one recv_request call of a listener over the interfaces ifs with the
\* marks mks comes to on the datagram d when no other listener exists: the
\* signal raised, or the bundle (less its message id) and the replier
AloneResult(ifs, mks, d) ==
    LET matching == {i \in 1..Len(ifs) : ifs[i].index = UnpackNativeI(d, 0)}
        ifc == ifs[CHOOSE i \in matching : \A j \in matching : i <= j]
        r == Ethernet_load_from(d, 8, None)
        f == r.value
        raised(sig) == [pc |-> "raised", signal |-> sig, bundle |-> NoBundle,
                        replier |-> NoReplier]
    IN  IF Len(d) < 70 THEN raised("IncompleteMessage")
        ELSE IF UnpackNativeI(d, 4) # 0 THEN raised("UnknownVPPAction")
        ELSE IF matching = {} THEN raised("UnknownVPPInterface")
        ELSE IF ~IsWanted(r) THEN raised("UnwantedVPPMessage")
        ELSE IF is_multicast(f.payload.destination) /\ ~ifc.accept_multicast
        THEN raised("UnwantedVPPMessage")
        ELSE IF ~is_multicast(f.payload.destination) /\ ~ifc.accept_unicast
        THEN raised("UnwantedVPPMessage")
        ELSE [pc |-> "returned", signal |-> "none",
              bundle |-> [message_id |-> << >>,
                          data |-> f.payload.payload.payload,
                          source_address |-> f.payload.source,
                          link_address |-> ifc.link_address,
                          interface_index |-> ifc.index,
                          received_over_multicast |-> is_multicast(f.payload.destination),
                          received_over_tcp |-> FALSE,
                          marks |-> mks,
                          relay_options |->
                              << [cls |-> "InterfaceIdOption",
                                  interface_id |-> EncodeUtf8(ifc.name)],
                                 [cls |-> "LinkLayerIdOption", link_layer_type |-> 1,
                                  link_layer_address |-> f.source] >>],
              replier |-> [interface_index |-> ifc.index,
                           interface_mac_address |-> ifc.mac_address,
                           client_mac_address |-> f.source,
                           reply_from |-> ifc.reply_from,
                           reply_socket |-> "listen_socket"]]

\* the listener l, configured with the interfaces ifs, is where it would be
\* alone: a finished call has the result of AloneResult on its own datagram,
\* and what it wrote is the reply for its own replier and message
RunsAsAlone(l, ifs) ==
    /\ l.interfaces = ifs
    /\ l.pc \in {"returned", "raised"} =>
          LET alone == AloneResult(ifs, l.marks, l.data)
          IN  /\ l.pc = alone.pc
              /\ l.signal = alone.signal
              /\ l.replier = alone.replier
              /\ l.pc = "returned" =>
                    [l.bundle EXCEPT !.message_id = << >>] = alone.bundle
    /\ l.send_calls > 0 =>
          /\ l.written.data
                 = reply_data(AloneResult(ifs, l.marks, l.data).replier, l.sent_message)
          /\ l.writes = l.send_calls

\* the same in the specification of one listener: AloneResult is what a
\* listener on its own comes to
AloneResultIsAlone == RunsAsAlone(LiveListener, interfaces)

\* C19: with two listeners, in every interleaving of the steps of their
\* calls, each listener's finished calls and writes are those it would have
\* alone on its own datagrams (the message id aside), and a step of one
\* listener, its read of one datagram included, leaves the other listener as
\* it was
C19_ListenersIndependent ==
    /\ [](/\ RunsAsAlone(LiveListener, PairInterfaces[live])
          /\ RunsAsAlone(parked, PairInterfaces[3 - live]))
    /\ [][live' = live => parked' = parked]_vars

\* the second listener has run a whole call and replied while the first one
\* was in the middle of its call on the same datagram
C19_Witness ==
    /\ live = 2
    /\ pc = "returned"
    /\ send_calls > 0
    /\ parked.pc = "interface_ok"
    /\ parked.data = data
    /\ message_counter = 1

\* the integer header fields of each layer: attribute, width in bits and
\* the text of its field error
IntegerFields(type) ==
    IF type = "Ethernet"
    THEN {[name |-> "ethertype", width |-> 16,
           message |-> "Ethertype must be an unsigned 16 bit integer"]}
    ELSE IF type = "IPv6"
    THEN {[name |-> "traffic_class", width |-> 8,
           message |-> "Traffic class must be an unsigned 8 bit integer"],
          [name |-> "flow_label", width |-> 20,
           message |-> "Flow label must be an unsigned 20 bit integer"],
          [name |-> "next_header", width |-> 8,
           message |-> "Next header type must be an unsigned 8 bit integer"],
          [name |-> "hop_limit", width |-> 8,
           message |-> "Hop limit must be an unsigned 8 bit integer"]}
    ELSE IF type = "UDP"
    THEN {[name |-> "source_port", width |-> 16,
           message |-> "Source port must be an unsigned 16 bit integer"],
          [name |-> "destination_port", width |-> 16,
           message |-> "Destination port must be an unsigned 16 bit integer"],
          [name |-> "checksum", width |-> 16,
           message |-> "Checksum must be an unsigned 16 bit integer"]}
    ELSE {}

\* the attribute x is an integer (Python's bool among the integers) that
\* fits w bits
FitsWidth(x, w) == x.type \in {"int", "bool"} /\ x.v \in 0..(2 ^ w - 1)

\* the element with its integer fields set to 0
RECURSIVE WithZeroFields(_, _)
WithZeroFields(obj, fields) ==
    IF fields = {} THEN obj
    ELSE LET f == CHOOSE g \in fields : TRUE
         IN  WithZeroFields([obj EXCEPT ![f.name] = PyInt(0)], fields \ {f})

\* C20: validate fails with a ValueError whenever an integer header field is
\* not an integer in 0..2^w - 1 (so for -1, for 2^w and for 0.1), it names
\* an integer field only if that field is out of range, and it succeeds when
\* all integer fields are in range and the rest of the element validates
C20_FieldWidthValidation ==
    op = "validate" =>
        LET fields == IntegerFields(val.type)
            InRange(f) == FitsWidth(val[f.name], f.width)
        IN  /\ res.ok => \A f \in fields : InRange(f)
            /\ (\E f \in fields : ~InRange(f)) => ~res.ok /\ res.err = "ValueError"
            /\ \A f \in fields : (~res.ok /\ res.message = f.message) => ~InRange(f)
            /\ ((\A f \in fields : InRange(f))
                /\ validate(WithZeroFields(val, fields)).ok) => res.ok

\* an IPv6 packet whose flow label is 2^20 and whose other fields are at
\* their largest value, refused for the flow label
C20_Witness ==
    /\ op = "validate"
    /\ val.type = "IPv6"
    /\ val.traffic_class = PyInt(255)
    /\ val.flow_label = PyInt(1048576)
    /\ val.next_header = PyInt(255)
    /\ val.hop_limit = PyInt(255)
    /\ ~res.ok
    /\ res.message = "Flow label must be an unsigned 20 bit integer"
\* a bytes object of exactly 6 bytes
IsMac(x) == x.type = "bytes" /\ Len(x.octets) = 6

\* the payload is an element and its own validate fails
PayloadValidateFails(p) == IsProtocolElement(p) /\ ~validate(p).ok

\* a payload a frame may hold and that validates
ValidFramePayload(p) ==
    /\ p.type \in {"IPv6", "UnknownLayer3Packet", "UnknownProtocolElement"}
    /\ validate(p).ok

\* C21: validate of an Ethernet frame fails with a ValueError when the source
\* or the destination is not a bytes object of exactly 6 bytes (naming the
\* source first), when the payload is not a protocol element and when the
\* payload's own validate fails; it succeeds for two 6-byte MACs, an
\* ethertype of 16 bits and a payload that validates
C21_EthernetValidate ==
    (op = "validate" /\ val.type = "Ethernet") =>
        /\ ~IsMac(val.source) =>
               ~res.ok /\ res.err = "ValueError"
               /\ res.message = "Source must be a sequence of 6 bytes"
        /\ (IsMac(val.source) /\ ~IsMac(val.destination)) =>
               ~res.ok /\ res.err = "ValueError"
               /\ res.message = "Destination must be a sequence of 6 bytes"
        /\ ~IsProtocolElement(val.payload) => ~res.ok /\ res.err = "ValueError"
        /\ PayloadValidateFails(val.payload) => ~res.ok /\ res.err = "ValueError"
        /\ (IsMac(val.source) /\ IsMac(val.destination) /\ FitsWidth(val.ethertype, 16)
             /\ IsProtocolElement(val.payload) /\ ValidFramePayload(val.payload))
               => res.ok

\* a frame whose only fault is a destination of 5 bytes, refused for it
C21_Witness ==
    /\ op = "validate" /\ val.type = "Ethernet"
    /\ val.source = PyBytes(MacB)
    /\ val.destination = PyBytes(<< 49, 50, 51, 52, 53 >>)
    /\ val.ethertype = PyInt(65535)
    /\ val.payload = GoodIPv6Object
    /\ res = FieldError("Destination must be a sequence of 6 bytes")
\* an IPv6Address object, which always holds 128 bits
IsIPv6Address(x) == x.type = "IPv6Address" /\ Len(x.packed) = 16

\* an address of ff00::/8
InMulticastRange(x) == x.packed[1] = 255

\* a payload a packet may hold and that validates
ValidPacketPayload(p) ==
    /\ p.type \in {"UDP", "UnknownLayer4Protocol"}
    /\ validate(p).ok

\* C22: validate of an IPv6 packet fails with a ValueError when the source or
\* the destination is not an IPv6Address and when the source is a multicast
\* address (naming the address at fault when the integer fields are in
\* range); it succeeds with a multicast destination when the source is a
\* unicast address and the rest of the packet validates
C22_IPv6AddressValidate ==
    (op = "validate" /\ val.type = "IPv6") =>
        LET InRange == \A f \in IntegerFields("IPv6") : FitsWidth(val[f.name], f.width)
            GoodSource == IsIPv6Address(val.source) /\ ~InMulticastRange(val.source)
        IN  /\ ~IsIPv6Address(val.source) =>
                   /\ ~res.ok /\ res.err = "ValueError"
                   /\ InRange => res.message = "Source must be an IPv6 address"
            /\ (IsIPv6Address(val.source) /\ InMulticastRange(val.source)) =>
                   /\ ~res.ok /\ res.err = "ValueError"
                   /\ InRange => res.message = "Source must be a non-multicast IPv6 address"
            /\ ~IsIPv6Address(val.destination) =>
                   /\ ~res.ok /\ res.err = "ValueError"
                   /\ (InRange /\ GoodSource)
                        => res.message = "Destination must be an IPv6 address"
            /\ (InRange /\ GoodSource /\ IsIPv6Address(val.destination)
                 /\ ValidPacketPayload(val.payload)) => res.ok

\* a packet from a unicast source to the multicast address of all servers
\* that validates, the same packet being refused with the two exchanged
C22_Witness ==
    /\ op = "validate" /\ val.type = "IPv6"
    /\ val.source = PyIPv6Address(AddrClient)
    /\ val.destination = PyIPv6Address(AddrAllServers)
    /\ val.payload = GoodUDPObject
    /\ res.ok
    /\ validate([val EXCEPT !.source = val.destination, !.destination = val.source])
           = FieldError("Source must be a non-multicast IPv6 address")
\* C23: save(zero_checksum=True) on a datagram, with or without a packet to
\* recalculate for, writes 0 as the checksum, leaves the datagram and its
\* stored checksum as they were, and writes the ports, the length (payload
\* length + 8) and the payload as a plain save() does
C23_ZeroChecksumSave ==
    (op = "save_with" /\ res.zero_checksum) =>
        LET out == res.saved.bytes
            plain == UDP_save_call(val, FALSE, NoPacket)
        IN  /\ res.saved.ok
            /\ Len(out) = 8 + Len(val.payload)
            /\ SubSeq(out, 7, 8) = << 0, 0 >>
            /\ res.saved.self = val
            /\ UnpackH(out, 0) = val.source_port
            /\ UnpackH(out, 2) = val.destination_port
            /\ UnpackH(out, 4) = Len(val.payload) + 8
            /\ SubSeq(out, 9, Len(out)) = val.payload
            /\ plain.ok => /\ SubSeq(out, 1, 6) = SubSeq(plain.bytes, 1, 6)
                           /\ SubSeq(out, 9, Len(out)) = SubSeq(plain.bytes, 9, Len(plain.bytes))

\* a datagram holding the checksum 42645 saved with zero_checksum and a
\* packet to recalculate for, for which the checksum would not be 42645
C23_Witness ==
    /\ op = "save_with" /\ res.zero_checksum
    /\ res.recalculate_checksum_for # NoPacket
    /\ val.checksum = 42645
    /\ val.payload = DemoPayload15
    /\ calculate_checksum(val, res.recalculate_checksum_for) # 42645
    /\ UnpackH(res.saved.bytes, 6) = 0
    /\ res.saved.self.checksum = 42645
\* C24: save(recalculate_checksum_for=p) on a datagram writes
\* calculate_checksum(p) as the checksum and stores it in the datagram, so
\* the bytes are the same whatever checksum was stored before (-1 included);
\* and save() of an IPv6 packet holding a datagram saves the datagram in this
\* way, against the packet itself
C24_RecalculatedChecksumSave ==
    /\ (op = "save_with" /\ ~res.zero_checksum
            /\ res.recalculate_checksum_for # NoPacket) =>
           LET p == res.recalculate_checksum_for
               out == res.saved.bytes
           IN  /\ res.saved.ok
               /\ UnpackH(out, 6) = calculate_checksum(val, p)
               /\ res.saved.self = [val EXCEPT !.checksum = calculate_checksum(val, p)]
               /\ \A ck \in StoredChecksums :
                      UDP_save_call([val EXCEPT !.checksum = ck], FALSE, p).bytes = out
    /\ (op = "save_packet" /\ val.payload.cls = "UDP") =>
           LET d == val.payload
           IN  /\ SubSeq(res.bytes, 41, Len(res.bytes)) = UDP_save_call(d, FALSE, val).bytes
               /\ UnpackH(res.bytes, 46) = calculate_checksum(d, val)
               /\ res.self.payload.checksum = calculate_checksum(d, val)
               /\ \A ck \in StoredChecksums :
                      IPv6_save([val EXCEPT !.payload.checksum = ck]).bytes = res.bytes

\* the packet of the tests saved while its datagram stores -1: the checksum
\* written and stored is 42645
C24_Witness ==
    /\ op = "save_packet"
    /\ val.payload.cls = "UDP"
    /\ val.payload.checksum = -1
    /\ val.payload.payload = DemoPayload16
    /\ UnpackH(res.bytes, 46) = 42645
    /\ res.self.payload.checksum = 42645
\* the accumulator when the loop of ones_complement_checksum has taken k
\* words of msg
AccumulatorAfter(msg, k) ==
    checksum_loop(SubSeq(msg, 1, 2 * k), [i |-> 0, checksum |-> 0]).checksum

\* after every step the accumulator is a 16-bit value that stands for the
\* sum of the words so far with every carry added back in: it is that sum
\* modulo 65535, and 0 only for a sum of 0
AccumulatorsFolded(msg) ==
    \A k \in 0..(Len(msg) \div 2) :
        LET a == AccumulatorAfter(msg, k)
            s == WordSum(SubSeq(msg, 1, 2 * k))
        IN  /\ a \in 0..65535
            /\ a % 65535 = s % 65535
            /\ (a = 0) <=> (s = 0)

\* C25: on a message of even length the accumulator of
\* ones_complement_checksum is in 0..65535 after every loop step, no carry
\* being lost by the single fold, and the value returned is in 0..65535 and
\* is the complement of the last accumulator
C25_AccumulatorStaysInRange ==
    /\ (op = "checksum" /\ Len(buf) % 2 = 0) =>
           /\ AccumulatorsFolded(buf)
           /\ res.ok
           /\ res.value \in 0..65535
           /\ res.value = 65535 - AccumulatorAfter(buf, Len(buf) \div 2)
    /\ op = "calculate_checksum" =>
           LET msg == Padded(ChecksumMessage(val.payload, val))
           IN  /\ AccumulatorsFolded(msg)
               /\ res.checksum \in 0..65535
               /\ res.checksum = 65535 - AccumulatorAfter(msg, Len(msg) \div 2)

\* two words of 0xFFFF: the sum 0x1FFFE is folded to 0xFFFF, the largest
\* accumulator, and 0 is returned
C25_Witness ==
    /\ op = "checksum"
    /\ buf = << 255, 255, 255, 255 >>
    /\ AccumulatorAfter(buf, 1) + 65535 = 131070
    /\ AccumulatorAfter(buf, 2) = 65535
    /\ res.value = 0
\* the message a receiver sums: the message the checksum is defined over
\* with the checksum in its field
ReceivedMessage(d, p, checksum) ==
    Padded([ChecksumMessage(d, p) EXCEPT ![40 + 7] = checksum \div 256,
                                         ![40 + 8] = checksum % 256])

\* C26: the engine run over the pseudo header of p and the datagram saved
\* with the checksum calculate_checksum(p) gave, padded to even length,
\* returns 0: the sum of all its words with end-around carry is 0xFFFF
C26_ReceiverVerifies ==
    op = "verify" =>
        /\ res.message = ReceivedMessage(val.payload, val, res.checksum)
        /\ res.verified.ok
        /\ res.verified.value = 0
        /\ AccumulatorAfter(res.message, Len(res.message) \div 2) = 65535
        /\ InternetChecksum(res.message) = 0

\* verified: a datagram whose checksum is calculated as 0 and sent as 0
C26_Witness ==
    /\ op = "verify"
    /\ val.payload.payload = ZeroChecksumPayload
    /\ res.checksum = 0
    /\ res.verified.value = 0

\* verified: the odd-length datagram of the tests, sent with 42680 and summed
\* with a byte of padding
OddLengthVerified ==
    /\ op = "verify"
    /\ val.payload.payload = DemoPayload15
    /\ res.checksum = 42680
    /\ Len(res.message) = 40 + 8 + 16
    /\ res.verified.value = 0
\* the datagram d with ck in the checksum field of the UDP header, which is
\* at 8 + 14 + 40 + 6
WithChecksumField(d, ck) ==
    [d EXCEPT ![ChecksumFieldOffset + 1] = ck \div 256,
              ![ChecksumFieldOffset + 2] = ck % 256]

\* the checksum a sender would have put in d: the internet checksum of the
\* pseudo header and the datagram, read from the bytes of d
SenderChecksumOf(d) ==
    LET udp == Slice(WithChecksumField(d, 0), 8 + 14 + 40, 8 + 14 + 40 + UDPLengthOf(d))
    IN  InternetChecksum(SubSeq(d, 8 + 14 + 8 + 1, 8 + 14 + 40)
                            \o PackI(UDPLengthOf(d)) \o << 0, 0, 0, 17 >> \o udp)

\* values for the checksum field: none, the sender's, and others
ChecksumAlternatives(d) == {0, 1, 65535, SenderChecksumOf(d)}

\* C27: recv_request does not look at the UDP checksum: a finished call on a
\* datagram ends as a call of the same listener on the datagram with any
\* other value in the checksum field does, with the same signal, or with the
\* same bundle (the message id aside) and the same replier
C27_ChecksumNotVerified ==
    (pc \in {"returned", "raised"} /\ Len(data) >= 70) =>
        \A ck \in ChecksumAlternatives(data) :
            LET other == AloneResult(interfaces, marks, WithChecksumField(data, ck))
            IN  /\ other.pc = pc
                /\ other.signal = signal
                /\ other.replier = replier
                /\ pc = "returned" => other.bundle = [bundle EXCEPT !.message_id = << >>]

\* a bundle returned for a Solicit whose checksum field holds 12345, not the
\* 27947 of its sender
C27_Witness ==
    /\ pc = "returned"
    /\ UnpackH(data, ChecksumFieldOffset) = 12345
    /\ SenderChecksumOf(data) = 27947
    /\ bundle.data = << 1, 18, 52, 86 >>
\* the counter is where the last bundle returned left it, or where it was
\* when the listener started
CounterAsLastReturned ==
    IF returned_ids = << >> THEN message_counter \in CounterStarts
    ELSE message_id_of(message_counter) = returned_ids[Len(returned_ids)]

\* C28: a call that ends with an ignorable signal has had no effect: the
\* message counter is what it was, nothing was written to the socket, there
\* is no replier and no bundle, and the interfaces and marks of the listener
\* are as configured; no step of a call other than the one that returns a
\* bundle changes the counter, the interfaces or the marks, and none of them
\* writes to the socket
C28_IgnoredFrameHasNoEffect ==
    /\ [](pc = "raised" =>
            /\ signal \in IgnorableSignals
            /\ CounterAsLastReturned
            /\ send_calls = 0 /\ writes = 0 /\ written = NoWrite
            /\ replier = NoReplier /\ bundle = NoBundle
            /\ interfaces \in InterfaceSets /\ marks = << "vpp" >>)
    /\ [][pc' # "returned" =>
            /\ UNCHANGED << message_counter, interfaces, marks, returned_ids >>
            /\ writes' = 0 /\ written' = NoWrite /\ replier' = NoReplier]_vars

\* a frame ignored for the policy of its interface, after a bundle was
\* returned and answered: the counter still is that of the bundle
C28_Witness ==
    /\ pc = "raised"
    /\ signal = "UnwantedVPPMessage"
    /\ steps = << "length", "action", "interface", "parse", "policy" >>
    /\ Len(returned_ids) = 1
    /\ message_counter = 1
\* an address of ff00::/8, as 16 bytes
InMulticastAddresses(address) == Len(address) = 16 /\ address[1] = 255

\* the IPv6 source address in the bytes of the datagram d
SourceOf(d) == SubSeq(d, 8 + 14 + 8 + 1, 8 + 14 + 24)

\* C29: a bundle is returned only for a frame whose IPv6 source is not a
\* multicast address, and the source address of the bundle, as of the packet
\* parse produced, is not a multicast address
C29_SourceNeverMulticast ==
    pc = "returned" =>
        /\ ~InMulticastAddresses(SourceOf(data))
        /\ ~InMulticastAddresses(frame.payload.source)
        /\ ~InMulticastAddresses(bundle.source_address)
\* the bytes parse consumed
ConsumedBytes == Slice(buf, off, off + res.parsed.consumed)

\* C30 as stated: for every buffer on which parse succeeds with (n, v),
\* save() of v gives the n bytes consumed, whatever the checksum and the
\* declared lengths in the buffer
C30_ParseSaveIdentityAnyBuffer ==
    op = "resave" => res.saved.bytes = ConsumedBytes
\* where the IPv6 header is in the buffer, when the element parsed is or
\* holds an IPv6 packet, and the packet
PacketOffset == IF cls = "Ethernet" THEN off + 14 ELSE off

PacketParsed == IF cls = "Ethernet" THEN res.parsed.value.payload ELSE res.parsed.value

HoldsPacket == cls = "IPv6" \/ (cls = "Ethernet" /\ res.parsed.value.payload.cls = "IPv6")

\* the bytes of the packet are what save() writes for it: the payload
\* takes all of the declared payload length and, being a datagram, declares
\* that length itself and holds the checksum calculate_checksum gives
SavesAsReceived ==
    HoldsPacket =>
        LET p == PacketParsed
            declared == UnpackH(buf, PacketOffset + 4)
        IN  IF p.payload.cls = "UDP"
            THEN /\ UnpackH(buf, PacketOffset + 40 + 4) = declared
                 /\ p.payload.checksum = InternetChecksum(ChecksumMessage(p.payload, p))
            ELSE Len(p.payload.data) = declared

\* C30 amended: for every buffer on which parse succeeds with (n, v), save()
\* of v gives the n bytes consumed, provided that an IPv6 packet in it has a
\* payload of exactly its declared payload length and that a UDP datagram in
\* the packet declares that same length and holds the checksum calculated
\* over pseudo header and datagram
C30_ParseSaveIdentity ==
    (op = "resave" /\ SavesAsReceived) => res.saved.bytes = ConsumedBytes
\* the frame of the tests, parsed at an offset and saved again: the bytes
\* consumed come back, checksum a695 included
C30_Witness ==
    /\ op = "resave"
    /\ cls = "Ethernet" /\ off = 1
    /\ HoldsPacket /\ SavesAsReceived
    /\ res.parsed.consumed = 14 + 40 + 24
    /\ UnpackH(res.saved.bytes, 14 + 40 + 6) = 42645
    /\ res.saved.bytes = SubSeq(buf, 2, Len(buf))

====
